---- MODULE Spec2Model ----
(***************************************************************************)
(* A model of pearce: the flat-box prior, the Gaussian likelihood and the  *)
(* log-probability that feed the ensemble sampler (emulator/emu.py and     *)
(* inference/runMCMC.py), the sampler drivers, the canonical sort of query *)
(* points, and the loading of a training corpus into the three emulator    *)
(* variants.                                                               *)
(*                                                                         *)
(* Numbers are exact rationals tagged with their floating-point class, so  *)
(* that NaN and the infinities compare and add as IEEE-754 / numpy do.     *)
(***************************************************************************)
EXTENDS Integers, Sequences, FiniteSets, TLC

(***************************************************************************)
(* Bounds of the model                                                     *)
(***************************************************************************)
\* number of sampled parameters of a prior evaluation
MaxTheta == 2
\* bounds are drawn from low \in 0..MaxLow, high \in low..low+MaxWidth
MaxLow == 1
MaxWidth == 2
\* observables of one likelihood, radial bins of one observable, and their
\* product
MaxObs == 2
MaxBins == 2
MaxLikeCells == 2
\* rows of means one emulator query returns
MaxRows == 2
\* values of a mean, of a measurement and of a (diagonal) covariance entry
MaxMu == 1
MaxY == 1
MaxCov == 2

(***************************************************************************)
(* Floating point values                                                   *)
(***************************************************************************)
Fin(v) == [k |-> "fin", n |-> v, d |-> 1]
Rat(num, den) ==
    IF den < 0 THEN [k |-> "fin", n |-> -num, d |-> -den]
    ELSE [k |-> "fin", n |-> num, d |-> den]
NaN == [k |-> "nan", n |-> 0, d |-> 1]
NegInf == [k |-> "-inf", n |-> 0, d |-> 1]
PosInf == [k |-> "+inf", n |-> 0, d |-> 1]

isnan(a) == a.k = "nan"
isfinite(a) == a.k = "fin"

\* a < b on floats: any comparison with NaN is False
FLt(a, b) ==
    CASE isnan(a) \/ isnan(b) -> FALSE
      [] a.k = "-inf" -> b.k # "-inf"
      [] a.k = "+inf" -> FALSE
      [] b.k = "-inf" -> FALSE
      [] b.k = "+inf" -> TRUE
      [] OTHER -> a.n * b.d < b.n * a.d
FGt(a, b) == FLt(b, a)

\* a == b on floats (NaN equals nothing)
FEq(a, b) ==
    CASE isnan(a) \/ isnan(b) -> FALSE
      [] isfinite(a) /\ isfinite(b) -> a.n * b.d = b.n * a.d
      [] OTHER -> a.k = b.k

\* a + b on floats
FAdd(a, b) ==
    CASE isnan(a) \/ isnan(b) -> NaN
      [] isfinite(a) /\ isfinite(b) -> Rat(a.n * b.d + b.n * a.d, a.d * b.d)
      [] isfinite(a) -> b
      [] isfinite(b) -> a
      [] a.k = b.k -> a
      [] OTHER -> NaN

Min(a, b) == IF a < b THEN a ELSE b
Max(a, b) == IF a < b THEN b ELSE a

(***************************************************************************)
(* The parameter manifest                                                  *)
(***************************************************************************)
\* ioHelpers.parameter: the named tuple (name, low, high)
parameter(name, low, high) == [name |-> name, low |-> low, high |-> high]

\* the names of ioHelpers.DEFAULT_PARAMS, in their order
DEFAULT_PARAM_NAMES ==
    <<"logMmin", "sigma_logM", "logM0", "logM1", "alpha", "f_c">>

\* the bounds of the named parameter
get_param_bounds(ordered_params, pname) ==
    LET i == CHOOSE j \in 1..Len(ordered_params) : ordered_params[j].name = pname
    IN  <<ordered_params[i].low, ordered_params[i].high>>

(***************************************************************************)
(* The flat prior, as the emulator module and the inference module have it *)
(***************************************************************************)
\* emu.lnprior: all(p.low < t < p.high for p, t in izip(ordered_params, theta))
lnprior_emu(th, ordered_params) ==
    IF \A i \in 1..Min(Len(ordered_params), Len(th)) :
           /\ FLt(Fin(ordered_params[i].low), th[i])
           /\ FLt(th[i], Fin(ordered_params[i].high))
    THEN Fin(0) ELSE NegInf

\* runMCMC.lnprior: the first component that is NaN, below low or above high
\* returns -inf; falling out of the loop returns 0
lnprior_runMCMC(th, ordered_params, param_names) ==
    IF \E i \in 1..Min(Len(param_names), Len(th)) :
           LET b == get_param_bounds(ordered_params, param_names[i])
           IN  isnan(th[i]) \/ FLt(th[i], Fin(b[1])) \/ FGt(th[i], Fin(b[2]))
    THEN NegInf ELSE Fin(0)

(***************************************************************************)
(* Outcomes of a call: a returned value or a raised exception              *)
(***************************************************************************)
Ret(v) == [kind |-> "return", val |-> v, exc |-> "none"]
Raise(e) == [kind |-> "raise", val |-> NaN, exc |-> e]
NotCalled == [kind |-> "notcalled", val |-> NaN, exc |-> "none"]

\* what a fitted process predicts, carried symbolically: the process, the
\* outputs it is conditioned on and the row it is asked at
Prediction(gp, given, at) == [gp |-> gp, given |-> given, at |-> at]

\* what emulate gives: the exception or the flat mean, whether errors come
\* with it, and the shape of the matrix t handed to the helper
Emulated(exc, mu, errs, tshape) ==
    [exc |-> exc, mu |-> mu, errs |-> errs, tshape |-> tshape]

(***************************************************************************)
(* Small dense linear algebra on integer matrices (sequences of rows)      *)
(***************************************************************************)
RECURSIVE SumTo(_, _)
\* sum of f[1] + ... + f[n]
SumTo(f, n) == IF n = 0 THEN 0 ELSE f[n] + SumTo(f, n - 1)

\* the matrix without row i and column j
Minor(M, i, j) ==
    LET n == Len(M)
        skip(k, s) == IF k < s THEN k ELSE k + 1
    IN  [r \in 1..(n - 1) |-> [c \in 1..(n - 1) |-> M[skip(r, i)][skip(c, j)]]]

RECURSIVE Det(_)
\* determinant, by expansion along the first row
Det(M) ==
    IF Len(M) = 0 THEN 1
    ELSE IF Len(M) = 1 THEN M[1][1]
    ELSE LET n == Len(M)
             term == [j \in 1..n |->
                        (IF j % 2 = 1 THEN 1 ELSE -1) * M[1][j] * Det(Minor(M, 1, j))]
         IN  SumTo(term, n)

\* adjugate: inv(M) = Adj(M) / Det(M)
Adj(M) ==
    LET n == Len(M)
    IN  [i \in 1..n |-> [j \in 1..n |->
            (IF (i + j) % 2 = 0 THEN 1 ELSE -1) * Det(Minor(M, j, i))]]

\* np.dot(delta, np.dot(M, delta))
QuadForm(delta, M) ==
    LET n == Len(delta)
        row == [i \in 1..n |-> delta[i] * SumTo([j \in 1..n |-> M[i][j] * delta[j]], n)]
    IN  SumTo(row, n)

\* t.reshape((-1, ncols)) of a flat vector, as its sequence of rows
Reshape2(flat, ncols) ==
    [r \in 1..(Len(flat) \div ncols) |-> [c \in 1..ncols |-> flat[(r - 1) * ncols + c]]]

(***************************************************************************)
(* The likelihood                                                          *)
(*                                                                         *)
(* An emulator is seen here through what one query returns: emu.out is     *)
(* what Emu.emulate gives for the query (its flat mean vector holds blocks *)
(* of one value per requested radial bin), emu.ycov the emulator           *)
(* covariance.                                                             *)
(* zq says how the redshift reaches emulate_wrt_r: "none" (no 'z' key, so  *)
(* z_bin_centers is the empty list), "scalar" or "array".                  *)
(***************************************************************************)
\* Emu.emulate_wrt_r with gp_errs=False, through the variant's
\* emulate_wrt_r_z, for a query on the training bins: the means as rows of
\* one value per radial bin
emulate_wrt_r(emu, zq, nbins) ==
    IF emu.out.exc # "none" THEN Raise(emu.out.exc)
    ELSE IF emu.variant = "OriginalRecipe" /\ zq # "array"
    THEN \* mu.reshape((-1, z_bin_centers.shape[0], ...)) on a list or a float
         Raise("AttributeError")
    ELSE IF Len(emu.out.mu) % nbins # 0 THEN Raise("ValueError")
    ELSE [kind |-> "return", val |-> NaN, exc |-> "none",
          rows |-> Reshape2(emu.out.mu, nbins)]

\* emu.lnlike(theta, emu, y, cov, bin_centers)
lnlike_emu(emu, zq, y, cov) ==
    LET nb == Len(y)
        out == emulate_wrt_r(emu, zq, nb)
    IN  IF out.kind = "raise" THEN Raise(out.exc)
        \* y_bar, G = <the array of means>: unpacks its rows
        ELSE IF Len(out.rows) # 2 THEN Raise("ValueError")
        ELSE LET y_bar == out.rows[1]
                 G == out.rows[2]
                 \* G + cov broadcasts the vector G along the rows of cov
                 D == [i \in 1..nb |-> [j \in 1..nb |-> G[j] + cov[i][j]]]
                 delta == [i \in 1..nb |-> y_bar[i] - y[i]]
             IN  IF Det(D) = 0 THEN Raise("LinAlgError")
                 ELSE Ret(Rat(-QuadForm(delta, Adj(D)), 2 * Det(D)))

RECURSIVE lnlike_loop(_, _, _, _, _)
\* the loop of runMCMC.lnlike over izip(_emus, ys, combined_inv_covs), from
\* observable k on, chi2 being the sum so far; merge is the side of the
\* unresolved conflict of lines 62-69 that is kept
lnlike_loop(obs, zq, merge, k, chi2) ==
    IF k > Len(obs) THEN Ret(Fin(chi2))
    ELSE LET o == obs[k]
             out == emulate_wrt_r(o.emu, zq, Len(o.y))
         IN  IF out.kind = "raise" THEN Raise(out.exc)
             \* "HEAD" keeps only comments: delta is never bound
             ELSE IF merge = "HEAD" THEN Raise("NameError")
             ELSE LET y_bar == out.rows[1]
                      delta == [i \in 1..Len(o.y) |-> y_bar[i] - o.y[i]]
                  IN  lnlike_loop(obs, zq, merge, k + 1,
                                  chi2 - QuadForm(delta, o.combined_inv_cov))

\* runMCMC.lnlike(theta, param_names, fixed_params, r_bin_centers, ys,
\* combined_inv_covs)
lnlike_runMCMC(obs, zq, merge) == lnlike_loop(obs, zq, merge, 1, 0)

(***************************************************************************)
(* The log-probability: prior, then likelihood                             *)
(***************************************************************************)
\* the fields of one evaluation: the values of lnprior, of the lnlike call
\* and of lnprob, and the number of lnlike calls made
Evaluation(lp, ll, prob, calls) ==
    [prior |-> lp, like |-> ll, prob |-> prob, likeCalls |-> calls]

\* emu.lnprob(theta, emu, y, cov, bin_centers)
lnprob_emu(th, c) ==
    LET lp == lnprior_emu(th, c.ordered_params)
    IN  IF ~isfinite(lp) THEN Evaluation(lp, NotCalled, Ret(NegInf), 0)
        ELSE LET ll == lnlike_emu(c.obs[1].emu, c.zq, c.obs[1].y, c.obs[1].cov)
             IN  Evaluation(lp, ll,
                            IF ll.kind = "raise" THEN Raise(ll.exc)
                            ELSE Ret(FAdd(lp, ll.val)), 1)

\* runMCMC.lnprob(theta, param_names, fixed_params, r_bin_centers, ys,
\* combined_inv_covs)
lnprob_runMCMC(th, c) ==
    LET lp == lnprior_runMCMC(th, c.ordered_params, c.param_names)
    IN  IF ~isfinite(lp) THEN Evaluation(lp, NotCalled, Ret(NegInf), 0)
        ELSE LET ll == lnlike_runMCMC(c.obs, c.zq, c.merge)
             IN  Evaluation(lp, ll,
                            IF ll.kind = "raise" THEN Raise(ll.exc)
                            ELSE Ret(FAdd(lp, ll.val)), 1)

(***************************************************************************)
(* State                                                                   *)
(***************************************************************************)
VARIABLES
    theta,      \* the proposal handed to lnprior / lnprob
    ctx,        \* the *args of the call and the module-level emulators
    ev,         \* what the evaluation returned
    lpc,        \* "off" | "ready" | "prior" | "done"
    t,          \* the matrix handed to _sort_params
    sorted,     \* what the calls of _sort_params returned
    spc,        \* "off" | "ready" | "sorted" | "resorted"
    corpus,     \* training_dir: the list of training directories on disk
    emu,        \* the emulator object under construction
    epc,        \* "off" | "new" | "loaded" | "load_failed" | "built" |
                \* "build_failed" | "queried" | "asked" | "rejected" |
                \* "made" | "catalog"
    out,        \* the last call of emulate: its arguments and what it gave
    mc,         \* the arguments and the sampler of one run_mcmc call
    mpc,        \* "off" | "called" | "sampling" | "failed" | "done"
    george,     \* the kernel the GPs share, and each GP's factorization
    tpc,        \* "off" | "idle" | "trained" | "predicted"
    loo,        \* one call of _loo_errors: its arrays and its loop index
    jpc,        \* "off" | "called" | "looping" | "returned"
    cat         \* a Cat: what it has loaded and populated, and its last call

likeVars == <<theta, ctx, ev, lpc>>
sortVars == <<t, sorted, spc>>
loadVars == <<corpus, emu, epc, out>>
mcmcVars == <<mc, mpc>>
trainVars == <<george, tpc>>
looVars == <<loo, jpc>>
vars == <<theta, ctx, ev, lpc, t, sorted, spc, corpus, emu, epc, out, mc, mpc,
          george, tpc, loo, jpc, cat>>

NoCtx == [module |-> "none"]
NoEv == Evaluation(NaN, NotCalled, NotCalled, 0)
LikeOff == theta = <<>> /\ ctx = NoCtx /\ ev = NoEv /\ lpc = "off"
SortOff == t = <<>> /\ sorted = <<>> /\ spc = "off"
LoadOff == corpus = <<>> /\ emu = <<>> /\ epc = "off" /\ out = <<>>
McmcOff == mc = <<>> /\ mpc = "off"
TrainOff == george = <<>> /\ tpc = "off"
LooOff == loo = <<>> /\ jpc = "off"
CatOff == cat = <<>>

(***************************************************************************)
(* Evaluating the prior alone                                              *)
(***************************************************************************)
Modules == {"emu", "runMCMC"}
ThetaVals == {Fin(v) : v \in -1..(MaxLow + MaxWidth + 1)} \cup {NaN}
BoundPairs == {<<lo, hi>> \in (0..MaxLow) \X (0..(MaxLow + MaxWidth)) :
                   lo < hi /\ hi <= lo + MaxWidth}
\* the manifests of np parameters, every bound pair for every parameter
Manifests(np) ==
    {[i \in 1..np |-> parameter(DEFAULT_PARAM_NAMES[i], b[i][1], b[i][2])] :
        b \in [1..np -> BoundPairs]}

InitPrior ==
    /\ \E m \in Modules, np \in 1..MaxTheta :
         /\ theta \in [1..np -> ThetaVals]
         /\ \E op \in Manifests(np) :
              ctx = [module |-> m, ordered_params |-> op,
                     param_names |-> [i \in 1..np |-> op[i].name]]
    /\ ev = NoEv
    /\ lpc = "ready"
    /\ SortOff /\ LoadOff /\ McmcOff /\ TrainOff /\ LooOff /\ CatOff

\* lnprior(theta, emu, ...) of emu.py
LnpriorEmu ==
    /\ lpc = "ready" /\ ctx.module = "emu"
    /\ ev' = [ev EXCEPT !.prior = lnprior_emu(theta, ctx.ordered_params)]
    /\ lpc' = "prior"
    /\ UNCHANGED <<theta, ctx, sortVars, loadVars, mcmcVars, trainVars, looVars, cat>>

\* lnprior(theta, param_names, ...) of runMCMC.py
LnpriorRunMCMC ==
    /\ lpc = "ready" /\ ctx.module = "runMCMC"
    /\ ev' = [ev EXCEPT !.prior =
                 lnprior_runMCMC(theta, ctx.ordered_params, ctx.param_names)]
    /\ lpc' = "prior"
    /\ UNCHANGED <<theta, ctx, sortVars, loadVars, mcmcVars, trainVars, looVars, cat>>

NextPrior == LnpriorEmu \/ LnpriorRunMCMC
SpecPrior == InitPrior /\ [][NextPrior]_vars

\* every component is a number strictly between its bounds
StrictlyInside(th, op) ==
    \A i \in 1..Len(th) :
        /\ th[i].k = "fin"
        /\ op[i].low * th[i].d < th[i].n
        /\ th[i].n < op[i].high * th[i].d

Variants == {"OriginalRecipe", "SpicyBuffalo", "ExtraCrispy"}
Vectors(n, S) == [1..n -> S]
\* diagonal n x n matrices with diagonal entries in S
Diagonals(n, S) ==
    {[i \in 1..n |-> [j \in 1..n |-> IF i = j THEN dg[i] ELSE 0]] : dg \in [1..n -> S]}
Zeros(n) == [i \in 1..n |-> [j \in 1..n |-> 0]]

\* the emulators as one query of nb radial bins sees them
EmuViews(nb, ycovs) ==
    {[variant |-> v, out |-> Emulated("none", mu, FALSE, <<0, 0>>), ycov |-> g] :
        v \in Variants, g \in ycovs,
        mu \in UNION {Vectors(k * nb, 0..MaxMu) : k \in 1..MaxRows}}

\* one observable of the emulator module: (emu, y, cov)
ObsEmu(nb) ==
    {[emu |-> e, y |-> y, cov |-> c] :
        e \in EmuViews(nb, Diagonals(nb, 0..1)), y \in Vectors(nb, 0..MaxY),
        c \in Diagonals(nb, 1..MaxCov)}

\* one observable of the inference module: (_emu, y, combined_inv_cov)
ObsRunMCMC(nb) ==
    {[emu |-> e, y |-> y, combined_inv_cov |-> c] :
        e \in EmuViews(nb, {Zeros(nb)}), y \in Vectors(nb, 0..MaxY),
        c \in Diagonals(nb, 1..MaxCov)}

\* one parameter with bounds (1, 3): theta is outside, on the lower bound,
\* inside, or NaN
LnprobManifest == <<parameter(DEFAULT_PARAM_NAMES[1], 1, 3)>>
LnprobThetas == {<<Fin(0)>>, <<Fin(1)>>, <<Fin(2)>>, <<NaN>>}

InitLnprob ==
    /\ theta \in LnprobThetas
    /\ \/ \E nb \in 1..Min(MaxBins, MaxLikeCells) : \E o \in ObsEmu(nb) :
            ctx = [module |-> "emu", merge |-> "theirs", zq |-> "none",
                   ordered_params |-> LnprobManifest,
                   param_names |-> <<LnprobManifest[1].name>>,
                   obs |-> <<o>>]
       \/ \E nobs \in 1..MaxObs, nb \in 1..MaxBins :
            /\ nobs * nb <= MaxLikeCells
            /\ \E os \in [1..nobs -> ObsRunMCMC(nb)],
                  mg \in {"HEAD", "theirs"}, zq \in {"none", "scalar", "array"} :
                 ctx = [module |-> "runMCMC", merge |-> mg, zq |-> zq,
                        ordered_params |-> LnprobManifest,
                        param_names |-> <<LnprobManifest[1].name>>,
                        obs |-> os]
    /\ ev = NoEv
    /\ lpc = "ready"
    /\ SortOff /\ LoadOff /\ McmcOff /\ TrainOff /\ LooOff /\ CatOff

\* lnprob(theta, emu, y, cov, bin_centers) of emu.py
LnprobEmu ==
    /\ lpc = "ready" /\ ctx.module = "emu"
    /\ ev' = lnprob_emu(theta, ctx)
    /\ lpc' = "done"
    /\ UNCHANGED <<theta, ctx, sortVars, loadVars, mcmcVars, trainVars, looVars, cat>>

\* lnprob(theta, param_names, ...) of runMCMC.py
LnprobRunMCMC ==
    /\ lpc = "ready" /\ ctx.module = "runMCMC"
    /\ ev' = lnprob_runMCMC(theta, ctx)
    /\ lpc' = "done"
    /\ UNCHANGED <<theta, ctx, sortVars, loadVars, mcmcVars, trainVars, looVars, cat>>

NextLnprob == LnprobEmu \/ LnprobRunMCMC
SpecLnprob == InitLnprob /\ [][NextLnprob]_vars

\* C2 (as claimed): when the prior is -infinity lnprob returns -infinity,
\* raises nothing and never calls the likelihood; when the prior is finite
\* lnprob returns prior + likelihood, the likelihood being called exactly once.
C2_LnprobGuardsLikelihood ==
    lpc = "done" =>
        /\ ~isfinite(ev.prior) =>
              /\ ev.prob = Ret(NegInf)
              /\ ev.likeCalls = 0
              /\ ev.like = NotCalled
        /\ isfinite(ev.prior) =>
              /\ ev.likeCalls = 1
              /\ ev.like.kind = "return"
              /\ ev.prob.kind = "return"
              /\ FEq(ev.prob.val, FAdd(ev.prior, ev.like.val))

\* the mean the emulator of observable o predicts for the query: the first
\* row of its means
PredictedMean(o) == Reshape2(o.emu.out.mu, Len(o.y))[1]
Delta(o) == [i \in 1..Len(o.y) |-> PredictedMean(o)[i] - o.y[i]]
MatAdd(A, B) == [i \in 1..Len(A) |-> [j \in 1..Len(A) |-> A[i][j] + B[i][j]]]

\* -1/2 * sum over the observables of delta^T (G + C)^-1 delta; the inference
\* module is handed (G + C)^-1 precomputed
GaussianLogLike(c) ==
    IF c.module = "runMCMC"
    THEN Rat(-SumTo([k \in 1..Len(c.obs) |->
                        QuadForm(Delta(c.obs[k]), c.obs[k].combined_inv_cov)],
                    Len(c.obs)), 2)
    ELSE LET o == c.obs[1]
             D == MatAdd(o.emu.ycov, o.cov)
         IN  Rat(-QuadForm(Delta(o), Adj(D)), 2 * Det(D))

\* C3 (as claimed): for every theta the prior accepts, the likelihood of
\* either module is the sum over the observables of
\* -1/2 * delta^T (G + C)^-1 delta.
C3_LikelihoodIsGaussian ==
    (lpc = "done" /\ isfinite(ev.prior)) =>
        /\ ev.like.kind = "return"
        /\ FEq(ev.like.val, GaussianLogLike(ctx))

(***************************************************************************)
(* Emu._sort_params                                                        *)
(*                                                                         *)
(* t is an N x D matrix (a sequence of N rows). The code views it with a   *)
(* record type of min(N, D) float fields: numpy accepts the view when the  *)
(* record width divides the D values of a row (ValueError otherwise, and   *)
(* the code then takes max(N, D) fields), and the view has D / width       *)
(* columns of records; np.sort(..., order=all fields, axis=0) sorts every  *)
(* column of records on its own.                                           *)
(***************************************************************************)
\* a sorts before b, comparing the fields in order
LexLess(a, b) ==
    \E i \in 1..Len(a) : a[i] < b[i] /\ \A j \in 1..(i - 1) : a[j] = b[j]

\* the place (from 1) of element i of s once s is sorted
Rank(s, i) ==
    Cardinality({j \in 1..Len(s) : LexLess(s[j], s[i]) \/ (s[j] = s[i] /\ j < i)}) + 1

\* np.sort of a column of records by all their fields
SortTuples(s) == [p \in 1..Len(s) |-> s[CHOOSE i \in 1..Len(s) : Rank(s, i) = p]]

\* the number of fields of the record type the view ends up with
ViewWidth(N, D) == IF D % Min(N, D) = 0 THEN Min(N, D) ELSE Max(N, D)

\* column c of t.view(<width fields>): one record per row
ViewColumn(tt, width, c) ==
    [i \in 1..Len(tt) |-> [f \in 1..width |-> tt[i][(c - 1) * width + f]]]

\* one pass of adjacent exchanges over the rows
sort_params_one_pass(tt) ==
    LET RECURSIVE pass(_, _)
        pass(s, i) ==
            IF i >= Len(s) THEN s
            ELSE IF LexLess(s[i + 1], s[i])
                 THEN pass([s EXCEPT ![i] = s[i + 1], ![i + 1] = s[i]], i + 1)
                 ELSE pass(s, i + 1)
    IN  pass(tt, 1)

\* Emu._sort_params(t)
sort_params(tt) ==
    LET N == Len(tt)
        D == Len(tt[1])
        width == ViewWidth(N, D)
        col == [c \in 1..(D \div width) |-> SortTuples(ViewColumn(tt, width, c))]
    IN  IF N = 1 THEN tt  \* a row array is already sorted
        ELSE [i \in 1..N |-> [j \in 1..D |->
                 col[((j - 1) \div width) + 1][i][((j - 1) % width) + 1]]]

\* the one-to-one maps of 1..n onto itself
Perms(n) == {f \in [1..n -> 1..n] : \A i, j \in 1..n : f[i] = f[j] => i = j}

\* Emu._sort_params(t, argsort=True): the index vectors np.argsort may
\* return for the first column of the view (ties in any order), from 0
sort_params_argsort(tt) ==
    IF Len(tt) = 1 THEN {<<0>>}
    ELSE LET first == ViewColumn(tt, ViewWidth(Len(tt), Len(tt[1])), 1)
         IN  {[p \in 1..Len(tt) |-> f[p] - 1] :
                 f \in {g \in Perms(Len(tt)) :
                          [p \in 1..Len(tt) |-> first[g[p]]] = SortTuples(first)}}

MaxSortRows == 3
MaxSortCols == 4
MaxSortCells == 8
MaxSortVal == 1

InitSort ==
    /\ \E N \in 1..MaxSortRows, D \in 1..MaxSortCols :
         /\ N * D <= MaxSortCells
         /\ t \in [1..N -> [1..D -> 0..MaxSortVal]]
    /\ sorted = [out |-> <<>>, idx |-> <<>>, again |-> <<>>]
    /\ spc = "ready"
    /\ LikeOff /\ LoadOff /\ McmcOff /\ TrainOff /\ LooOff /\ CatOff

\* _sort_params(t)
SortParams ==
    /\ spc = "ready"
    /\ sorted' = [sorted EXCEPT !.out = sort_params(t)]
    /\ spc' = "sorted"
    /\ UNCHANGED <<t, likeVars, loadVars, mcmcVars, trainVars, looVars, cat>>

\* _sort_params(t, argsort=True)
ArgsortParams ==
    /\ spc = "ready"
    /\ \E idx \in sort_params_argsort(t) : sorted' = [sorted EXCEPT !.idx = idx]
    /\ spc' = "argsorted"
    /\ UNCHANGED <<t, likeVars, loadVars, mcmcVars, trainVars, looVars, cat>>

\* _sort_params applied to what _sort_params returned
SortAgain ==
    /\ spc = "sorted"
    /\ sorted' = [sorted EXCEPT !.again = sort_params(sorted.out)]
    /\ spc' = "resorted"
    /\ UNCHANGED <<t, likeVars, loadVars, mcmcVars, trainVars, looVars, cat>>

NextSort == SortParams \/ ArgsortParams \/ SortAgain
SpecSort == InitSort /\ [][NextSort]_vars

\* the rows of b are the rows of a in some order
IsRowPermutation(a, b) ==
    /\ Len(a) = Len(b)
    /\ \E f \in Perms(Len(a)) : b = [i \in 1..Len(a) |-> a[f[i]]]

\* no row sorts before the row above it
LexSorted(a) == \A i \in 1..(Len(a) - 1) : ~LexLess(a[i + 1], a[i])

\* C5 (as claimed): for two or more rows, whatever the number of columns,
\* _sort_params returns the rows of t in lexicographic order, and gives the
\* same result for every reordering of the rows of t; a single row comes back
\* unchanged, with [0] as its argsort.
C5_SortParamsLexicographic ==
    /\ spc = "sorted" =>
          IF Len(t) = 1 THEN sorted.out = t
          ELSE /\ IsRowPermutation(t, sorted.out)
               /\ LexSorted(sorted.out)
               /\ \A f \in Perms(Len(t)) :
                     sort_params([i \in 1..Len(t) |-> t[f[i]]]) = sorted.out
    /\ (spc = "argsorted" /\ Len(t) = 1) => sorted.idx = <<0>>

\* C6: sorting what _sort_params returned changes nothing.
C6_SortParamsIdempotent ==
    spc = "resorted" => sorted.again = sorted.out

\* a matrix of three rows that the first call had to reorder was sorted twice
C6_Witness ==
    /\ spc = "resorted"
    /\ Len(t) >= 3
    /\ sorted.out # t

(***************************************************************************)
(* The training corpus and Emu.get_data                                    *)
(*                                                                         *)
(* A training directory is a sequence of epochs (its a_* sub-directories   *)
(* in glob order); an epoch has its scale factor a, the bin edges and the  *)
(* sampling method of its global file and its obs/cov file pairs in sorted *)
(* order; a file pair has the parameter values of its header and says      *)
(* whether its observable or covariance holds a NaN. The transformed       *)
(* observable of (directory d, epoch e, file f, bin b) is carried as the   *)
(* tag [tr, d, e, f, b].                                                   *)
(***************************************************************************)
RECURSIVE Pow10(_)
Pow10(k) == IF k = 0 THEN 1 ELSE 10 * Pow10(k - 1)

RECURSIVE log10(_)
\* np.log10 on the powers of ten
log10(v) == IF v = 1 THEN 0 ELSE 1 + log10(v \div 10)

RECURSIVE BinEdge(_)
\* bin edges 0, 2, 18, 182, ...: their midpoints are 1, 10, 100, ...
BinEdge(i) == IF i = 1 THEN 0 ELSE 2 * Pow10(i - 2) - BinEdge(i - 1)
Bins(nb) == [i \in 1..(nb + 1) |-> BinEdge(i)]

\* (bins[:-1] + bins[1:]) / 2
BinCenters(bins) == [i \in 1..(Len(bins) - 1) |-> (bins[i] + bins[i + 1]) \div 2]

\* Emu._iv_transform, per bin: log10 of the observable, or r^2 times it
iv_transform(independent_variable, d, e, f, b) ==
    [tr |-> IF independent_variable = "None" THEN "log10" ELSE "r2",
     d |-> d, e |-> e, f |-> f, b |-> b]
ZeroTag == [tr |-> "zero", d |-> 0, e |-> 0, f |-> 0, b |-> 0]

\* float(fname[-7:]) of a sub-directory a_%.5f is its scale factor; the
\* model carries it in units of 10^-5 and keeps to scale factors whose
\* redshift 1/a - 1 is a whole number
RedshiftOf(a) == (100000 - a) \div a

Abs(v) == IF v < 0 THEN -v ELSE v

\* the parameters that get a column: ordered_params without the fixed ones
VariedParams(ordered_params, fixed_params) ==
    SelectSeq(ordered_params, LAMBDA p : p.name \notin DOMAIN fixed_params)

\* whether a file is at the fixed values (to_continue stays False)
AtFixedValues(file, input_params) ==
    \A key \in (DOMAIN input_params) \ {"z", "r"} :
        file.params[key] = input_params[key]

\* the row of x of one file at bin b
FileRow(cols, file, z, centers, b) ==
    [j \in 1..Len(cols) |->
        IF cols[j].name = "r" THEN log10(centers[b])
        ELSE IF cols[j].name = "z" THEN z
        ELSE file.params[cols[j].name]]

\* one pass of the loop of get_data over the sub-directories: the rows of
\* epoch e of directory d that survive, and whether a warning was issued
GetDataEpoch(ordered_params, fixed_params, independent_variable, d, e, epoch) ==
    LET centers == BinCenters(epoch.bins)
        scale_nbins == Len(centers)
        npoints == Len(epoch.files) * scale_nbins
        cols == VariedParams(ordered_params, fixed_params)
        ndim == Len(cols)
        fileOf(i) == (i - 1) \div scale_nbins + 1
        binOf(i) == ((i - 1) % scale_nbins) + 1
        used(f) == /\ AtFixedValues(epoch.files[f], fixed_params)
                   /\ ~epoch.files[f].nan
        \* x, y and yerr start as zeros; a file that is used fills its rows
        filled == [i \in 1..npoints |->
                     IF used(fileOf(i))
                     THEN [x |-> FileRow(cols, epoch.files[fileOf(i)],
                                         RedshiftOf(epoch.a),
                                         centers, binOf(i)),
                           y |-> iv_transform(independent_variable, d, e,
                                              fileOf(i), binOf(i)),
                           yerr |-> iv_transform(independent_variable, d, e,
                                                 fileOf(i), binOf(i))]
                     ELSE [x |-> [j \in 1..ndim |-> 0], y |-> ZeroTag,
                           yerr |-> ZeroTag]]
        \* zeros_slice = np.any(x != 0.0, axis=1)
        zeros_slice(r) == \E j \in 1..ndim : r.x[j] # 0
    IN  [rows |-> SelectSeq(filled, zeros_slice),
         warned |-> \E f \in 1..Len(epoch.files) :
                       /\ AtFixedValues(epoch.files[f], fixed_params)
                       /\ epoch.files[f].nan,
         scale_bin_centers |-> centers]

RECURSIVE Concat(_)
\* the concatenation of a sequence of sequences
Concat(ss) == IF Len(ss) = 0 THEN <<>> ELSE Head(ss) \o Concat(Tail(ss))

RECURSIVE Flatten(_, _)
\* a.reshape((-1,)) of an array of the given number of dimensions
Flatten(a, depth) ==
    IF depth = 1 THEN a
    ELSE Concat([i \in 1..Len(a) |-> Flatten(a[i], depth - 1)])

\* np.argmin(np.abs(sub_dirs_as - 1/(1+z))): the first nearest sub-directory
NearestEpoch(dir, z) ==
    LET dist(e) == Abs(dir[e].a * (1 + z) - 100000)
    IN  CHOOSE e \in 1..Len(dir) :
            \A o \in 1..Len(dir) : dist(e) < dist(o) \/ (dist(e) = dist(o) /\ e <= o)

\* np.abs(a - input_a) > 0.05
BeyondTolerance(a, z) == Abs(a * (1 + z) - 100000) > 5000 * (1 + z)

\* Emu.get_data(data_dir, {}, fixed_params, independent_variable) on
\* directory d: x, y, yerr, the attributes it sets and the warnings it issues
get_data(ordered_params, fixed_params, independent_variable, d, dir) ==
    LET zfixed == "z" \in DOMAIN fixed_params
        zs == IF zfixed THEN fixed_params["z"] ELSE <<>>
        \* the sub-directories read, as indices into dir
        sub_dirs == IF zfixed THEN [k \in 1..Len(zs) |-> NearestEpoch(dir, zs[k])]
                    ELSE [e \in 1..Len(dir) |-> e]
        perEpoch == [k \in 1..Len(sub_dirs) |->
                        GetDataEpoch(ordered_params, fixed_params,
                                     independent_variable, d, sub_dirs[k],
                                     dir[sub_dirs[k]])]
        rows == Concat([k \in 1..Len(sub_dirs) |-> perEpoch[k].rows])
        none == [exc |-> "none", x |-> <<>>, y |-> <<>>, yerr |-> <<>>, ndim |-> 0, warnings |-> 0,
                 scale_bin_centers |-> <<>>, redshift_bin_centers |-> <<>>]
    IN  IF Cardinality(DOMAIN fixed_params) - Len(ordered_params) > 1
        THEN [none EXCEPT !.exc = "AssertionError"]
        ELSE IF zfixed /\ \E k \in 1..Len(zs) :
                              BeyondTolerance(dir[sub_dirs[k]].a, zs[k])
        THEN [none EXCEPT !.exc = "IOError"]
        ELSE IF /\ DOMAIN fixed_params # {}
                /\ DOMAIN fixed_params # {"z"}
                /\ \E k \in 1..Len(sub_dirs) : dir[sub_dirs[k]].sampling_method = "LHC"
        THEN [none EXCEPT !.exc = "ValueError"]
        \* np.vstack of an empty list
        ELSE IF Len(sub_dirs) = 0 THEN [none EXCEPT !.exc = "ValueError"]
        ELSE [exc |-> "none",
              x |-> [i \in 1..Len(rows) |-> rows[i].x],
              y |-> [i \in 1..Len(rows) |-> rows[i].y],
              yerr |-> [i \in 1..Len(rows) |-> rows[i].yerr],
              ndim |-> Len(VariedParams(ordered_params, fixed_params)),
              warnings |-> Cardinality({k \in 1..Len(sub_dirs) : perEpoch[k].warned}),
              scale_bin_centers |-> perEpoch[Len(sub_dirs)].scale_bin_centers,
              redshift_bin_centers |->
                  [k \in 1..Len(sub_dirs) |-> RedshiftOf(dir[sub_dirs[k]].a)]]

(***************************************************************************)
(* The rows of np.stack(np.meshgrid(...)).T.reshape((-1, L)), one per grid *)
(* point of L arrays. With meshgrid's 'xy' indexing the second array runs  *)
(* fastest, then the first, then the third, the fourth, ...                *)
(***************************************************************************)
RECURSIVE Prod(_, _)
\* f[1] * ... * f[n]
Prod(f, n) == IF n = 0 THEN 1 ELSE f[n] * Prod(f, n - 1)

\* the arrays from the fastest running to the slowest
MeshOrder(L) ==
    [i \in 1..L |-> IF L = 1 THEN 1 ELSE IF i = 1 THEN 2 ELSE IF i = 2 THEN 1 ELSE i]

\* the index (from 0) into array k of row g (from 1)
MeshIndex(sizes, k, g) ==
    LET o == MeshOrder(Len(sizes))
        r == CHOOSE i \in 1..Len(sizes) : o[i] = k
        stride == Prod([i \in 1..(r - 1) |-> sizes[o[i]]], r - 1)
    IN  ((g - 1) \div stride) % sizes[k]

(***************************************************************************)
(* The emulator object: Emu.__init__, load_training_data and _build_gp of  *)
(* OriginalRecipe and ExtraCrispy                                          *)
(***************************************************************************)
\* the attributes __init__ sets before it loads the training data
NewEmu(variant, ordered_params, fixed_params, independent_variable) ==
    [variant |-> variant, method |-> "gp", ordered_params |-> ordered_params,
     fixed_params |-> fixed_params, independent_variable |-> independent_variable,
     x |-> <<>>, y |-> <<>>, yerr |-> <<>>, yshape |-> <<0>>,
     emulator_ndim |-> 0, sampling_ndim |-> 0, fixed_ndim |-> 0,
     scale_bin_centers |-> <<>>, redshift_bin_centers |-> <<>>,
     emulator |-> <<>>, emulators |-> <<>>, warnings |-> 0, exc |-> "none"]

\* the loop of load_training_data over training_dir: what get_data returns
\* for each directory
GetAll(e, training_dir) ==
    [d \in 1..Len(training_dir) |->
        get_data(e.ordered_params, e.fixed_params, e.independent_variable, d,
                 training_dir[d])]

\* the directories read before the loop ends: all of them, or those up to
\* the first one get_data raises on
DirsRead(gs) ==
    IF \E d \in 1..Len(gs) : gs[d].exc # "none"
    THEN CHOOSE d \in 1..Len(gs) :
             gs[d].exc # "none" /\ \A o \in 1..(d - 1) : gs[o].exc = "none"
    ELSE Len(gs)

\* the warnings issued while reading the first n directories
WarningsOf(gs, n) == SumTo([d \in 1..n |-> gs[d].warnings], n)

\* OriginalRecipe.load_training_data(training_dir)
load_training_data_OR(e, training_dir) ==
    LET gs == GetAll(e, training_dir)
        n == DirsRead(gs)
        x == Concat([d \in 1..n |-> gs[d].x])
        y == Concat([d \in 1..n |-> gs[d].y])
        yerr == Concat([d \in 1..n |-> gs[d].yerr])
        ndim == gs[n].ndim
    IN  IF gs[n].exc # "none"
        THEN [e EXCEPT !.exc = gs[n].exc, !.warnings = WarningsOf(gs, n)]
        ELSE [e EXCEPT !.x = x, !.y = y, !.yerr = yerr, !.yshape = <<Len(y)>>,
                       !.scale_bin_centers = gs[n].scale_bin_centers,
                       !.redshift_bin_centers = gs[n].redshift_bin_centers,
                       !.fixed_ndim = Cardinality(DOMAIN e.fixed_params),
                       !.emulator_ndim = ndim,
                       !.sampling_ndim = ndim - 1,
                       !.warnings = WarningsOf(gs, n)]

\* flat.reshape((-1, n1, n2)), as a sequence of n1 x n2 blocks
Reshape3(flat, n1, n2) ==
    [p \in 1..(Len(flat) \div (n1 * n2)) |->
        [i \in 1..n1 |-> [j \in 1..n2 |->
            flat[(p - 1) * n1 * n2 + (i - 1) * n2 + j]]]]

\* a[0:-1:step]: the rows 0, step, 2 step, ... before the last row
StridedButLast(a, step) ==
    [k \in 1..(IF Len(a) <= 1 THEN 0 ELSE ((Len(a) - 2) \div step) + 1) |->
        a[(k - 1) * step + 1]]

\* ExtraCrispy.load_training_data(training_dir)
load_training_data_EC(e, training_dir) ==
    LET gs == GetAll(e, training_dir)
        n == DirsRead(gs)
        scale_nbins == Len(gs[n].scale_bin_centers)
        redshift_nbins == Len(gs[n].redshift_bin_centers)
        y == Concat([d \in 1..n |-> gs[d].y])
        yerr == Concat([d \in 1..n |-> gs[d].yerr])
        ndim == gs[n].ndim
    IN  IF gs[n].exc # "none"
        THEN [e EXCEPT !.exc = gs[n].exc, !.warnings = WarningsOf(gs, n)]
        ELSE IF Len(y) % (scale_nbins * redshift_nbins) # 0
        THEN \* the reshape of y
             [e EXCEPT !.exc = "ValueError", !.warnings = WarningsOf(gs, n)]
        ELSE [e EXCEPT !.x = StridedButLast(Concat([d \in 1..n |-> gs[d].x]),
                                            scale_nbins * redshift_nbins),
                       !.y = Reshape3(y, scale_nbins, redshift_nbins),
                       !.yerr = Reshape3(yerr, scale_nbins, redshift_nbins),
                       !.yshape = <<Len(y) \div (scale_nbins * redshift_nbins),
                                    scale_nbins, redshift_nbins>>,
                       !.scale_bin_centers = gs[n].scale_bin_centers,
                       !.redshift_bin_centers = gs[n].redshift_bin_centers,
                       !.fixed_ndim = Cardinality(DOMAIN e.fixed_params),
                       !.emulator_ndim = ndim,
                       !.sampling_ndim = ndim - 1,
                       !.warnings = WarningsOf(gs, n)]

\* george.GP(kernel).compute(x, yerr): the fitted process, or the exception.
\* x and yerr must have as many rows; what the factorisation of an empty
\* kernel matrix does is left to the library (empty_ok).
gp_compute(ndim, x, yerr, empty_ok) ==
    IF Len(x) # Len(yerr) THEN [exc |-> "ValueError", ndim |-> ndim, x |-> <<>>,
                                yerr |-> <<>>]
    ELSE IF Len(x) = 0 /\ ~empty_ok
    THEN [exc |-> "ValueError", ndim |-> ndim, x |-> <<>>, yerr |-> <<>>]
    ELSE [exc |-> "none", ndim |-> ndim, x |-> x, yerr |-> yerr]

\* OriginalRecipe._build_gp(hyperparams)
build_gp_OR(e, empty_ok) ==
    LET gp == gp_compute(e.emulator_ndim, e.x, e.yerr, empty_ok)
    IN  IF gp.exc # "none" THEN [e EXCEPT !.exc = gp.exc]
        ELSE [e EXCEPT !.emulator = gp]

\* the slot of a grid that was never assigned
None == [exc |-> "None", ndim |-> 0, x |-> <<>>, yerr |-> <<>>]

\* _build_gp storing the process of (scale bin i, redshift bin j) in
\* emulators[i][j]
build_gp_EC_transposed(e, empty_ok) ==
    LET R == e.yshape[2]
        Z == e.yshape[3]
        gp(i, j) == gp_compute(e.emulator_ndim, e.x,
                               [p \in 1..e.yshape[1] |-> e.yerr[p][i][j]], empty_ok)
    IN  IF \E i \in 1..R, j \in 1..Z : gp(i, j).exc # "none"
        THEN [e EXCEPT !.exc = "ValueError"]
        ELSE IF R # Z THEN [e EXCEPT !.exc = "IndexError"]
        ELSE [e EXCEPT !.emulators = [j \in 1..Z |-> [i \in 1..R |-> gp(j, i)]]]

\* ExtraCrispy._build_gp(hyperparams): emulators[j][i] is the process for
\* scale bin i and redshift bin j
build_gp_EC(e, empty_ok) ==
    LET R == e.yshape[2]
        Z == e.yshape[3]
        gp(i, j) == gp_compute(e.emulator_ndim, e.x,
                               [p \in 1..e.yshape[1] |-> e.yerr[p][i][j]], empty_ok)
    IN  IF \E i \in 1..R, j \in 1..Z : gp(i, j).exc # "none"
        THEN [e EXCEPT !.exc = "ValueError"]
        ELSE [e EXCEPT !.emulators = [j \in 1..Z |-> [i \in 1..R |-> gp(i, j)]]]

(***************************************************************************)
(* SpicyBuffalo: one process per bin of the axis that is not emulated      *)
(***************************************************************************)
\* SpicyBuffalo.__init__(training_dir, em_param, ...): the attributes before
\* the training data are loaded
NewBuffalo(em_param, ordered_params, fixed_params, independent_variable) ==
    LET base == NewEmu("SpicyBuffalo", ordered_params, fixed_params,
                       independent_variable)
    IN  [f \in (DOMAIN base) \cup {"em_param", "em_bin_centers"} |->
            IF f = "em_param" THEN em_param
            ELSE IF f = "em_bin_centers" THEN <<>>
            ELSE base[f]]

\* yy.reshape((-1, nbins), order='F') of a flat vector
ReshapeF(flat, nbins) ==
    LET K == Len(flat) \div nbins
    IN  [k \in 1..K |-> [j \in 1..nbins |-> flat[(j - 1) * K + k]]]

\* the first n elements of a sequence
FirstRows(a, n) == [k \in 1..Min(n, Len(a)) |-> a[k]]

\* SpicyBuffalo.load_training_data(training_dir)
load_training_data_SB(e, training_dir) ==
    LET gs == GetAll(e, training_dir)
        n == DirsRead(gs)
        failed(x) == [e EXCEPT !.exc = x, !.warnings = WarningsOf(gs, n)]
        loaded(x, y, yerr, centers) ==
            [e EXCEPT !.x = x, !.y = y, !.yerr = yerr,
                      !.yshape = <<Len(y), Len(centers)>>,
                      !.scale_bin_centers = gs[n].scale_bin_centers,
                      !.redshift_bin_centers = gs[n].redshift_bin_centers,
                      !.em_bin_centers = centers,
                      !.fixed_ndim = Cardinality(DOMAIN e.fixed_params),
                      !.emulator_ndim = gs[n].ndim,
                      !.sampling_ndim = gs[n].ndim - 1,
                      !.warnings = WarningsOf(gs, n)]
    IN  IF gs[n].exc # "none" THEN failed(gs[n].exc)
        ELSE IF e.em_param = "z"
        THEN LET nbins == Len(gs[n].scale_bin_centers)
                 y == Concat([d \in 1..n |-> gs[d].y])
                 yerr == Concat([d \in 1..n |-> gs[d].yerr])
             IN  IF Len(y) % nbins # 0 THEN failed("ValueError")
                 ELSE loaded(StridedButLast(Concat([d \in 1..n |-> gs[d].x]), nbins),
                             Reshape2(y, nbins), Reshape2(yerr, nbins),
                             gs[n].scale_bin_centers)
        ELSE LET nbins == Len(gs[n].redshift_bin_centers)
             IN  IF \E d \in 1..n : Len(gs[d].y) % nbins # 0
                 THEN failed("ValueError")
                 ELSE loaded(Concat([d \in 1..n |->
                                        FirstRows(gs[d].x, Len(gs[d].x) \div nbins)]),
                             Concat([d \in 1..n |-> ReshapeF(gs[d].y, nbins)]),
                             Concat([d \in 1..n |-> ReshapeF(gs[d].yerr, nbins)]),
                             gs[n].redshift_bin_centers)

\* SpicyBuffalo._build_gp(hyperparams): emulators[i] is the process of bin i
build_gp_SB(e, empty_ok) ==
    LET gp(i) == gp_compute(e.emulator_ndim, e.x,
                            [p \in 1..e.yshape[1] |-> e.yerr[p][i]], empty_ok)
    IN  IF \E i \in 1..e.yshape[2] : gp(i).exc # "none"
        THEN [e EXCEPT !.exc = "ValueError"]
        ELSE [e EXCEPT !.emulators = [i \in 1..e.yshape[2] |-> gp(i)]]

(***************************************************************************)
(* Emu.emulate                                                             *)
(*                                                                         *)
(* em_params maps names to their sequences of values (a float is one       *)
(* value).                                                                 *)
(***************************************************************************)
\* OriginalRecipe._emulate_helper(t, gp_errs)
emulate_helper_OR(e, tt, gp_errs) ==
    Emulated("none", [i \in 1..Len(tt) |-> Prediction(e.emulator, e.y, tt[i])],
             gp_errs, <<Len(tt), e.emulator_ndim>>)

\* ExtraCrispy._emulate_helper(t, gp_errs): all_mu[p, scale_idx, z_idx],
\* flattened
emulate_helper_EC(e, tt, gp_errs) ==
    LET R == e.yshape[2]
        Z == e.yshape[3]
        all_mu == [p \in 1..Len(tt) |-> [i \in 1..R |-> [j \in 1..Z |->
                     Prediction(e.emulators[j][i],
                                [q \in 1..e.yshape[1] |-> e.y[q][i][j]], tt[p])]]]
    IN  IF gp_errs
        THEN \* all_err.rehsape: no such attribute
             Emulated("AttributeError", <<>>, FALSE, <<Len(tt), e.emulator_ndim>>)
        ELSE Emulated("none", Flatten(all_mu, 3), FALSE,
                      <<Len(tt), e.emulator_ndim>>)

\* SpicyBuffalo._emulate_helper(t, gp_errs): all_mu[p, idx], flattened
emulate_helper_SB(e, tt, gp_errs) ==
    LET all_mu == [p \in 1..Len(tt) |-> [i \in 1..e.yshape[2] |->
                     Prediction(e.emulators[i],
                                [q \in 1..e.yshape[1] |-> e.y[q][i]], tt[p])]]
    IN  Emulated("none", Flatten(all_mu, 2), gp_errs,
                 <<Len(tt), e.emulator_ndim>>)

\* Emu.emulate(em_params, gp_errs)
emulate(e, em_params, gp_errs) ==
    LET input_params == (DOMAIN e.fixed_params) \cup (DOMAIN em_params)
        names == [j \in 1..Len(e.ordered_params) |-> e.ordered_params[j].name]
        t_list == SelectSeq(names, LAMBDA n : n \in DOMAIN em_params)
        L == Len(t_list)
        sizes == [k \in 1..L |-> Len(em_params[t_list[k]])]
        flat == Concat([g \in 1..Prod(sizes, L) |->
                           [k \in 1..L |->
                               em_params[t_list[k]][MeshIndex(sizes, k, g) + 1]]])
    IN  IF Cardinality(input_params) - e.emulator_ndim + e.fixed_ndim > 2
        THEN Emulated("AssertionError", <<>>, FALSE, <<0, 0>>)
        ELSE IF \E n \in input_params : \A j \in 1..Len(names) : names[j] # n
        THEN Emulated("AssertionError", <<>>, FALSE, <<0, 0>>)
        \* np.stack of no arrays; a reshape that does not divide
        ELSE IF L = 0 \/ Len(flat) % e.emulator_ndim # 0
        THEN Emulated("ValueError", <<>>, FALSE, <<0, 0>>)
        ELSE LET tt == sort_params(Reshape2(flat, e.emulator_ndim))
             IN  IF e.variant = "OriginalRecipe"
                 THEN emulate_helper_OR(e, tt, gp_errs)
                 ELSE IF e.variant = "SpicyBuffalo"
                 THEN emulate_helper_SB(e, tt, gp_errs)
                 ELSE emulate_helper_EC(e, tt, gp_errs)

\* np.any(a) of a sequence of numbers
AnyNonzero(a) == \E i \in 1..Len(a) : a[i] # 0

\* np.any(a != b), a length-one operand being broadcast and operands that
\* do not broadcast comparing unequal as a whole
AnyDiffer(a, b) ==
    IF Len(a) = Len(b) THEN \E i \in 1..Len(a) : a[i] # b[i]
    ELSE IF Len(a) = 1 THEN \E i \in 1..Len(b) : a[1] # b[i]
    ELSE IF Len(b) = 1 THEN \E i \in 1..Len(a) : a[i] # b[1]
    ELSE TRUE

\* scipy's interp1d(grid, row, kind)(at): the value interpolated across the
\* per-bin outputs row
Interp1d(grid, row, at) == [grid |-> grid, row |-> row, at |-> at]

\* whether interp1d over grid serves every value of req: two grid points at
\* least, and no value outside the grid's range
InterpServes(grid, req) ==
    /\ Len(grid) >= 2
    /\ \A k \in 1..Len(req) :
          /\ \E i \in 1..Len(grid) : grid[i] <= req[k]
          /\ \E i \in 1..Len(grid) : grid[i] >= req[k]

\* what emulate_wrt_r_z gives: the exception if any, whether it went on to
\* interpolate, and the means (flat when not interpolated, else a matrix)
WrtRZ(exc, interpolated, mu) ==
    [exc |-> exc, interpolated |-> interpolated, mu |-> mu]

\* SpicyBuffalo.emulate_wrt_r_z(em_params, r_bin_centers, z_bin_centers,
\* gp_errs, kind)
emulate_wrt_r_z_SB(e, em_params, r_bin_centers, z_bin_centers, gp_errs) ==
    LET rpc == IF AnyNonzero(r_bin_centers)
               THEN [b \in 1..Len(r_bin_centers) |-> log10(r_bin_centers[b])]
               ELSE <<>>
        val == IF e.em_param = "r" THEN rpc ELSE z_bin_centers
        vep == IF e.em_param \notin DOMAIN em_params /\ AnyNonzero(val)
               THEN [k \in (DOMAIN em_params) \cup {e.em_param} |->
                        IF k = e.em_param THEN val ELSE em_params[k]]
               ELSE em_params
        res == emulate(e, vep, gp_errs)
        \* the bins of the axis that is not emulated: the request, the grid
        input_bin == IF e.em_param = "r" THEN z_bin_centers ELSE r_bin_centers
        owned_bin == IF e.em_param = "r" THEN e.redshift_bin_centers
                     ELSE e.scale_bin_centers
        nbins == Len(e.em_bin_centers)
        all_mu == Reshape2(res.mu, nbins)
        new_mu == [p \in 1..Len(all_mu) |-> [k \in 1..Len(input_bin) |->
                     Interp1d(e.em_bin_centers, all_mu[p], input_bin[k])]]
    IN  IF res.exc # "none" THEN WrtRZ(res.exc, FALSE, <<>>)
        ELSE IF ~(AnyNonzero(input_bin) /\ AnyDiffer(input_bin, owned_bin))
        THEN WrtRZ("none", FALSE, res.mu)
        ELSE IF Len(res.mu) % nbins # 0 THEN WrtRZ("ValueError", TRUE, <<>>)
        ELSE IF ~InterpServes(e.em_bin_centers, input_bin)
        THEN WrtRZ("ValueError", TRUE, <<>>)
        \* self.em_bin_centerss: no such attribute
        ELSE IF Len(all_mu) = 1 /\ gp_errs THEN WrtRZ("AttributeError", TRUE, <<>>)
        \* several query rows emulating along r: the matrix is transposed
        ELSE IF Len(all_mu) > 1 /\ e.em_param = "r"
        THEN WrtRZ("none", TRUE, [k \in 1..Len(input_bin) |->
                                    [q \in 1..Len(all_mu) |-> new_mu[q][k]]])
        ELSE WrtRZ("none", TRUE, new_mu)

(***************************************************************************)
(* Constructing an emulator from a training corpus                         *)
(***************************************************************************)
MaxHod == 2
MaxParamLow == 1
MaxDirs == 2
MaxEpochs == 2
MaxPoints == 2
MaxCorpusFiles == 4
MaxScaleBins == 2
MaxBad == 2

\* the scale factors of the epochs on disk: a = 1, 1/2, 1/4, 1/5
ScaleFactors == <<100000, 50000, 25000, 20000>>

\* the HOD parameters of the manifest: np.linspace(low, high, N) steps by 1
HodParams(F, lows, N) ==
    [j \in 1..F |-> parameter(DEFAULT_PARAM_NAMES[j], lows[j],
                              lows[j] + Max(N - 1, 1))]

HodNames(hod) == {hod[j].name : j \in 1..Len(hod)}
HodIndex(hod, name) == CHOOSE j \in 1..Len(hod) : hod[j].name = name

\* trainingData.makeLHC(ordered_params, N), each np.random.shuffle leaving
\* its column in place
makeLHC(hod, N) ==
    [f \in 1..N |-> [n \in HodNames(hod) |-> hod[HodIndex(hod, n)].low + f - 1]]

\* trainingData.makeFHC(ordered_params, N): the N^F points of the grid
makeFHC(hod, N) ==
    LET sizes == [j \in 1..Len(hod) |-> N]
    IN  [f \in 1..Prod(sizes, Len(hod)) |->
            [n \in HodNames(hod) |->
                hod[HodIndex(hod, n)].low + MeshIndex(sizes, HodIndex(hod, n), f)]]

\* the corpus trainingData.make_training_data lays out (the same points at
\* every scale factor), bad being the (directory, epoch, file) triples
\* whose observable or covariance came out NaN
Corpus(nd, as, method, points, nb, bad) ==
    [d \in 1..nd |-> [e \in 1..Len(as) |->
        [a |-> as[e], bins |-> Bins(nb), sampling_method |-> method,
         files |-> [f \in 1..Len(points) |->
                      [params |-> points[f], nan |-> <<d, e, f>> \in bad]]]]]

\* the (directory, epoch, file) triples of a corpus
FileIds(c) ==
    {<<d, e, f>> \in (1..Len(c)) \X (1..MaxEpochs) \X (1..MaxCorpusFiles) :
        e <= Len(c[d]) /\ f <= Len(c[d][e].files)}

\* the subsets of S of at most n elements
RECURSIVE UpTo(_, _)
UpTo(S, n) ==
    IF n = 0 THEN {{}}
    ELSE UpTo(S, n - 1) \cup {B \cup {x} : B \in UpTo(S, n - 1), x \in S}

EmuVariants == {"OriginalRecipe", "ExtraCrispy"}

\* the manifest the caller passes: the HOD parameters, and for
\* OriginalRecipe 'r' last, with or without 'z' before it
OrderedParams(variant, hod, withz) ==
    IF variant = "ExtraCrispy" THEN hod
    ELSE hod \o (IF withz THEN <<parameter("z", 0, 4)>> ELSE <<>>)
             \o <<parameter("r", 0, 1)>>

\* fixed_params: nothing, one redshift, or the first HOD parameter at its low
FixedChoices(hod) ==
    {<<>>} \cup {[n \in {"z"} |-> <<zv>>] : zv \in 0..1}
           \cup {[n \in {hod[1].name} |-> hod[1].low]}

InitLoad ==
    /\ \E F \in 1..MaxHod, N \in 1..MaxPoints, nd \in 1..MaxDirs,
          Z \in 1..MaxEpochs, nb \in 1..MaxScaleBins,
          method \in {"LHC", "FHC"} :
         \E lows \in [1..F -> 0..MaxParamLow],
            as \in {q \in [1..Z -> {ScaleFactors[k] : k \in 1..MaxEpochs}] :
                      \A i, j \in 1..Z : q[i] = q[j] => i = j} :
           LET hod == HodParams(F, lows, N)
               points == IF method = "LHC" THEN makeLHC(hod, N) ELSE makeFHC(hod, N)
               clean == Corpus(nd, as, method, points, nb, {})
           IN  /\ nd * Z * Len(points) <= MaxCorpusFiles
               /\ \E bad \in UpTo(FileIds(clean), MaxBad) :
                     corpus = Corpus(nd, as, method, points, nb, bad)
               /\ \E variant \in EmuVariants, withz \in BOOLEAN,
                     fixed \in FixedChoices(hod), iv \in {"None", "r2"} :
                     /\ withz => variant = "OriginalRecipe"
                     /\ emu = NewEmu(variant, OrderedParams(variant, hod, withz),
                                     fixed, iv)
    /\ epc = "new"
    /\ out = <<>>
    /\ LikeOff /\ SortOff /\ McmcOff /\ TrainOff /\ LooOff /\ CatOff

\* OriginalRecipe(training_dir, ...), up to build_emulator
LoadTrainingData_OR ==
    /\ epc = "new" /\ emu.variant = "OriginalRecipe"
    /\ emu' = load_training_data_OR(emu, corpus)
    /\ epc' = IF emu'.exc = "none" THEN "loaded" ELSE "load_failed"
    /\ UNCHANGED <<corpus, out, likeVars, sortVars, mcmcVars, trainVars, looVars, cat>>

\* ExtraCrispy(training_dir, ...), up to build_emulator
LoadTrainingData_EC ==
    /\ epc = "new" /\ emu.variant = "ExtraCrispy"
    /\ emu' = load_training_data_EC(emu, corpus)
    /\ epc' = IF emu'.exc = "none" THEN "loaded" ELSE "load_failed"
    /\ UNCHANGED <<corpus, out, likeVars, sortVars, mcmcVars, trainVars, looVars, cat>>

\* build_emulator of OriginalRecipe
BuildGP_OR ==
    /\ epc = "loaded" /\ emu.variant = "OriginalRecipe"
    /\ \E empty_ok \in BOOLEAN : emu' = build_gp_OR(emu, empty_ok)
    /\ epc' = IF emu'.exc = "none" THEN "built" ELSE "build_failed"
    /\ UNCHANGED <<corpus, out, likeVars, sortVars, mcmcVars, trainVars, looVars, cat>>

\* build_emulator of ExtraCrispy
BuildGP_EC ==
    /\ epc = "loaded" /\ emu.variant = "ExtraCrispy"
    /\ \E empty_ok \in BOOLEAN : emu' = build_gp_EC(emu, empty_ok)
    /\ epc' = IF emu'.exc = "none" THEN "built" ELSE "build_failed"
    /\ UNCHANGED <<corpus, out, likeVars, sortVars, mcmcVars, trainVars, looVars, cat>>

\* the query at the lows of the parameters that have a column, over all the
\* training scale bins
FullQuery(e) ==
    LET cols == VariedParams(e.ordered_params, e.fixed_params)
    IN  [n \in {cols[j].name : j \in 1..Len(cols)} |->
            IF n = "r" THEN [b \in 1..Len(e.scale_bin_centers) |->
                                log10(e.scale_bin_centers[b])]
            ELSE IF n = "z" THEN <<e.redshift_bin_centers[1]>>
            ELSE <<(CHOOSE q \in {cols[j] : j \in 1..Len(cols)} : q.name = n).low>>]

\* the full query, and the full query without its first parameter
Queries(e) ==
    LET full == FullQuery(e)
    IN  {full, [n \in (DOMAIN full) \ {e.ordered_params[1].name} |-> full[n]]}

\* the elements of a set of numbers, ascending
Ascending(S) ==
    [k \in 1..Cardinality(S) |->
        CHOOSE v \in S : Cardinality({w \in S : w < v}) = k - 1]

\* the query at every training point: for each parameter the values it
\* takes in the files of the first epoch, with the bins as in the full query
TrainingQuery(e, training_dir) ==
    LET full == FullQuery(e)
        files == training_dir[1][1].files
    IN  [n \in DOMAIN full |->
            IF n \in {"r", "z"} THEN full[n]
            ELSE Ascending({files[f].params[n] : f \in 1..Len(files)})]

\* emu.emulate(em_params, gp_errs) on a built emulator
Emulate ==
    /\ epc = "built"
    /\ \E q \in Queries(emu) \cup {TrainingQuery(emu, corpus)},
          gp_errs \in BOOLEAN :
         out' = [em_params |-> q, gp_errs |-> gp_errs,
                 res |-> emulate(emu, q, gp_errs)]
    /\ epc' = "queried"
    /\ UNCHANGED <<corpus, emu, likeVars, sortVars, mcmcVars, trainVars, looVars, cat>>

NextLoad ==
    \/ LoadTrainingData_OR \/ LoadTrainingData_EC
    \/ BuildGP_OR \/ BuildGP_EC
    \/ Emulate
SpecLoad == InitLoad /\ [][NextLoad]_vars

\* the files of the corpus with a NaN, and those a load keeps: at the fixed
\* values and without NaN
NanFiles(c) == {id \in FileIds(c) : c[id[1]][id[2]].files[id[3]].nan}
ValidFiles(c, fixed) ==
    {id \in FileIds(c) :
        /\ ~c[id[1]][id[2]].files[id[3]].nan
        /\ AtFixedValues(c[id[1]][id[2]].files[id[3]], fixed)}

\* the (directory, epoch, file) triples that have a row in y
LoadedFiles(e) ==
    LET flat == Flatten(e.y, Len(e.yshape))
    IN  {<<flat[i].d, flat[i].e, flat[i].f>> : i \in 1..Len(flat)}

\* C7 (as claimed): one load of a corpus skips every point with a NaN
\* without raising, and issues exactly one warning for the whole load however
\* many points it skipped, none if it skipped none. (Stated for loads
\* without fixed parameters, which read every epoch and filter no file.)
C7_NaNSkippedWithOneWarning ==
    (epc \in {"loaded", "load_failed"} /\ DOMAIN emu.fixed_params = {}) =>
        /\ epc = "loaded"
        /\ LoadedFiles(emu) \cap NanFiles(corpus) = {}
        /\ emu.warnings = IF NanFiles(corpus) = {} THEN 0 ELSE 1

\* C8 (as claimed): when no valid training point is left after the NaN
\* points are skipped, loading fails instead of handing an empty design
\* matrix to the build.
C8_NoValidPointsIsFatal ==
    (epc \in {"loaded", "load_failed", "built", "build_failed"}
        /\ ValidFiles(corpus, emu.fixed_params) = {}) =>
        epc = "load_failed"

\* C9 (as claimed): OriginalRecipe loaded from one epoch with P valid points,
\* R radial bins and F free parameters followed by 'r' has x of shape
\* (P*R, F+1), y and yerr of length P*R, emulator_ndim = F+1 and
\* sampling_ndim = F.
C9_OriginalRecipeShapes ==
    (/\ epc \in {"loaded", "load_failed"}
     /\ emu.variant = "OriginalRecipe"
     /\ Len(corpus) = 1 /\ Len(corpus[1]) = 1
     /\ DOMAIN emu.fixed_params = {}
     /\ \A j \in 1..Len(emu.ordered_params) : emu.ordered_params[j].name # "z") =>
        LET P == Cardinality(ValidFiles(corpus, emu.fixed_params))
            R == Len(corpus[1][1].bins) - 1
            F == Len(emu.ordered_params) - 1
        IN  /\ epc = "loaded"
            /\ Len(emu.x) = P * R
            /\ \A i \in 1..Len(emu.x) : Len(emu.x[i]) = F + 1
            /\ Len(emu.y) = P * R
            /\ Len(emu.yerr) = P * R
            /\ emu.emulator_ndim = F + 1
            /\ emu.sampling_ndim = F

\* C10: once an ExtraCrispy is constructed, its processes take one input
\* column per free parameter and none for a bin, there is exactly one fitted
\* process for every (scale bin, redshift bin) pair and no empty slot, every
\* one was computed on the same x, and a query is reshaped to the same
\* number of columns.
C10_ExtraCrispyGridOfProcesses ==
    (epc \in {"built", "queried"} /\ emu.variant = "ExtraCrispy") =>
        LET R == Len(emu.scale_bin_centers)
            Z == Len(emu.redshift_bin_centers)
            D == Len(VariedParams(emu.ordered_params, emu.fixed_params))
        IN  /\ emu.emulator_ndim = D
            /\ \A p \in 1..Len(emu.x) : Len(emu.x[p]) = D
            /\ Len(emu.emulators) = Z
            /\ \A j \in 1..Z :
                  /\ Len(emu.emulators[j]) = R
                  /\ \A i \in 1..R :
                        /\ emu.emulators[j][i] # None
                        /\ emu.emulators[j][i].ndim = D
                        /\ emu.emulators[j][i].x = emu.x
                        /\ emu.emulators[j][i].yerr =
                              [p \in 1..emu.yshape[1] |-> emu.yerr[p][i][j]]
            /\ (epc = "queried" /\ out.res.tshape # <<0, 0>>) =>
                  /\ out.res.tshape[2] = D
                  /\ \A k \in 1..Len(out.res.mu) :
                        Len(out.res.mu[k].at) = out.res.mu[k].gp.ndim

\* an ExtraCrispy over two scale bins and two redshift bins was built on a
\* non-empty x and answered a query
C10_Witness ==
    /\ epc = "queried"
    /\ emu.variant = "ExtraCrispy"
    /\ Len(emu.scale_bin_centers) = 2
    /\ Len(emu.redshift_bin_centers) = 2
    /\ Len(emu.x) >= 1
    /\ out.res.exc = "none"

\* the training points of a corpus, as rows in the order of cols
TrainingPoints(cols, training_dir) ==
    LET files == training_dir[1][1].files
    IN  {[k \in 1..Len(cols) |-> files[f].params[cols[k].name]] :
            f \in 1..Len(files)}

\* C11: an ExtraCrispy built on a clean full grid and asked for every
\* training point answers once for each point, and the value at (point p,
\* scale bin i, redshift bin j) comes from a process that was given, at the
\* row of its x equal to p, the stored observable of the file of p in scale
\* bin i of epoch j: the prediction there is that stored y.
C11_ExtraCrispyBinsCarriedThrough ==
    (/\ epc = "queried" /\ emu.variant = "ExtraCrispy"
     /\ out.res.exc = "none"
     /\ out.em_params = TrainingQuery(emu, corpus)
     /\ \A d \in 1..Len(corpus) : \A e \in 1..Len(corpus[d]) :
           /\ corpus[d][e].sampling_method = "FHC"
           /\ \A f \in 1..Len(corpus[d][e].files) : ~corpus[d][e].files[f].nan)
    => LET R == Len(emu.scale_bin_centers)
           Z == Len(emu.redshift_bin_centers)
           cube == Reshape3(out.res.mu, R, Z)
           cols == VariedParams(emu.ordered_params, emu.fixed_params)
           points == TrainingPoints(cols, corpus)
       IN  /\ Len(out.res.mu) = Cardinality(points) * R * Z
           /\ {cube[p][1][1].at : p \in 1..Len(cube)} = points
           /\ \A p \in 1..Len(cube), i \in 1..R, j \in 1..Z :
                 LET pr == cube[p][i][j]
                 IN  /\ pr.at = cube[p][1][1].at
                     /\ \E q \in 1..Len(pr.gp.x) :
                           /\ q <= Len(pr.given)
                           /\ pr.gp.x[q] = pr.at
                           /\ pr.given[q].b = i
                           /\ pr.given[q].e = j
                           /\ pr.given[q].d >= 1
                           /\ LET g == pr.given[q]
                                  file == corpus[g.d][j].files[g.f]
                              IN  [k \in 1..Len(cols) |->
                                      file.params[cols[k].name]] = pr.at

\* whether a request does not match the trained dimensionality: it supplies
\* another number of parameters than emulator_ndim, or a name that is not in
\* the ordering
Mismatched(e, em_params) ==
    \/ Cardinality(DOMAIN em_params) # e.emulator_ndim
    \/ \E n \in DOMAIN em_params :
          \A j \in 1..Len(e.ordered_params) : e.ordered_params[j].name # n

\* C16: a request that does not match the trained dimensionality fails by
\* the assertions of emulate: no query matrix is built from it and nothing
\* is predicted.
C16_MismatchedRequestAsserts ==
    (epc = "queried" /\ Mismatched(emu, out.em_params))
    => /\ out.res.exc = "AssertionError"
       /\ out.res.mu = <<>>

\* the entries a helper owes for each query row: one for OriginalRecipe,
\* whose rows carry the bin, one per (scale bin, redshift bin) for ExtraCrispy
\* and one per bin for SpicyBuffalo
EntriesPerRow(e) ==
    IF e.variant = "OriginalRecipe" THEN 1
    ELSE IF e.variant = "ExtraCrispy" THEN e.yshape[2] * e.yshape[3]
    ELSE e.yshape[2]

\* C13: a query that predicts without errors requested predicts also with
\* errors requested, raising nothing; the variance comes back exactly when
\* asked for, alongside a mean of one entry per (query row, bin) that is the
\* mean returned without errors.
C13_HelperReturnsMeanAndVariance ==
    (/\ epc = "queried"
     /\ emulate(emu, out.em_params, FALSE).exc = "none")
    => /\ out.res.exc = "none"
       /\ out.res.errs = out.gp_errs
       /\ out.res.mu = emulate(emu, out.em_params, FALSE).mu
       /\ Len(out.res.mu) = out.res.tshape[1] * EntriesPerRow(emu)

\* the epochs of directory d that a load with these fixed parameters reads
EpochsRead(e, training_dir, d) ==
    IF "z" \in DOMAIN e.fixed_params
    THEN {NearestEpoch(training_dir[d], e.fixed_params["z"][k]) :
             k \in 1..Len(e.fixed_params["z"])}
    ELSE 1..Len(training_dir[d])

\* C29: the rows an OriginalRecipe loads are, for each epoch read, exactly
\* scale_nbins rows for every file at the fixed values and without NaN, and
\* none for any other file, whatever the parameter values (a row of zeros
\* included); x, y and yerr are as long, and at each index hold the same
\* file and bin.
C29_GetDataKeepsEveryValidRow ==
    (epc = "loaded" /\ emu.variant = "OriginalRecipe") =>
        LET cols == VariedParams(emu.ordered_params, emu.fixed_params)
        IN  /\ Len(emu.x) = Len(emu.y)
            /\ Len(emu.y) = Len(emu.yerr)
            /\ \A id \in FileIds(corpus) :
                  LET epoch == corpus[id[1]][id[2]]
                      rows == {i \in 1..Len(emu.y) :
                                  <<emu.y[i].d, emu.y[i].e, emu.y[i].f>> = id}
                  IN  Cardinality(rows) =
                          IF /\ id[2] \in EpochsRead(emu, corpus, id[1])
                             /\ id \in ValidFiles(corpus, emu.fixed_params)
                          THEN Len(BinCenters(epoch.bins)) ELSE 0
            /\ \A i \in 1..Len(emu.y) :
                  LET o == emu.y[i]
                      epoch == corpus[o.d][o.e]
                  IN  /\ emu.yerr[i] = o
                      /\ emu.x[i] = FileRow(cols, epoch.files[o.f],
                                            RedshiftOf(epoch.a),
                                            BinCenters(epoch.bins), o.b)

(***************************************************************************)
(* A SpicyBuffalo from its training corpus to its predictions              *)
(***************************************************************************)
\* the manifest of a SpicyBuffalo: the HOD parameters and the emulated bin
BuffaloParams(em_param, hod) ==
    hod \o <<IF em_param = "r" THEN parameter("r", 0, 1) ELSE parameter("z", 0, 4)>>

InitBuffalo ==
    /\ \E F \in 1..MaxHod, N \in 1..MaxPoints, nd \in 1..MaxDirs,
          Z \in 1..MaxEpochs, nb \in 1..MaxScaleBins,
          method \in {"LHC", "FHC"}, em_param \in {"r", "z"} :
         \E lows \in [1..F -> 0..MaxParamLow],
            as \in {q \in [1..Z -> {ScaleFactors[k] : k \in 1..MaxEpochs}] :
                      \A i, j \in 1..Z : q[i] = q[j] => i = j} :
           LET hod == HodParams(F, lows, N)
               points == IF method = "LHC" THEN makeLHC(hod, N) ELSE makeFHC(hod, N)
           IN  /\ nd * Z * Len(points) <= MaxCorpusFiles
               /\ corpus = Corpus(nd, as, method, points, nb, {})
               /\ \E iv \in {"None", "r2"} :
                     emu = NewBuffalo(em_param, BuffaloParams(em_param, hod),
                                      <<>>, iv)
    /\ epc = "new"
    /\ out = <<>>
    /\ LikeOff /\ SortOff /\ McmcOff /\ TrainOff /\ LooOff /\ CatOff

\* SpicyBuffalo(training_dir, em_param, ...), up to build_emulator
LoadTrainingData_SB ==
    /\ epc = "new" /\ emu.variant = "SpicyBuffalo"
    /\ emu' = load_training_data_SB(emu, corpus)
    /\ epc' = IF emu'.exc = "none" THEN "loaded" ELSE "load_failed"
    /\ UNCHANGED <<corpus, out, likeVars, sortVars, mcmcVars, trainVars, looVars, cat>>

\* build_emulator of SpicyBuffalo
BuildGP_SB ==
    /\ epc = "loaded" /\ emu.variant = "SpicyBuffalo"
    /\ \E empty_ok \in BOOLEAN : emu' = build_gp_SB(emu, empty_ok)
    /\ epc' = IF emu'.exc = "none" THEN "built" ELSE "build_failed"
    /\ UNCHANGED <<corpus, out, likeVars, sortVars, mcmcVars, trainVars, looVars, cat>>

\* the bins a caller may ask for along an axis whose training grid is
\* owned: the grid itself, zeros, the grid moved (off), its first value
\* twice, and nothing
BinRequests(owned, off) ==
    {owned, [k \in 1..Len(owned) |-> 0], off, <<owned[1], owned[1]>>, <<>>}

\* emu.emulate_wrt_r_z(em_params, r_bin_centers, z_bin_centers, gp_errs) on
\* a built SpicyBuffalo, at the lows of its HOD parameters
EmulateWrtRZ_SB ==
    /\ epc = "built" /\ emu.variant = "SpicyBuffalo"
    /\ \E r_bin_centers \in
             BinRequests(emu.scale_bin_centers,
                         [k \in 1..Len(emu.scale_bin_centers) |->
                             10 * emu.scale_bin_centers[k]]),
          z_bin_centers \in
             BinRequests(emu.redshift_bin_centers,
                         [k \in 1..Len(emu.redshift_bin_centers) |->
                             emu.redshift_bin_centers[k] + 1]),
          gp_errs \in BOOLEAN :
         LET full == FullQuery(emu)
             em_params == [n \in (DOMAIN full) \ {"r", "z"} |-> full[n]]
         IN  out' = [em_params |-> em_params, r_bin_centers |-> r_bin_centers,
                     z_bin_centers |-> z_bin_centers, gp_errs |-> gp_errs,
                     res |-> emulate_wrt_r_z_SB(emu, em_params, r_bin_centers,
                                                z_bin_centers, gp_errs)]
    /\ epc' = "asked"
    /\ UNCHANGED <<corpus, emu, likeVars, sortVars, mcmcVars, trainVars, looVars, cat>>

NextBuffalo == LoadTrainingData_SB \/ BuildGP_SB \/ EmulateWrtRZ_SB
SpecBuffalo == InitBuffalo /\ [][NextBuffalo]_vars

\* the request along the axis that is not emulated, and its training grid
RequestedBins == IF emu.em_param = "r" THEN out.z_bin_centers ELSE out.r_bin_centers
OwnedBins ==
    IF emu.em_param = "r" THEN emu.redshift_bin_centers ELSE emu.scale_bin_centers

\* C12: a SpicyBuffalo asked for values of the axis it does not emulate
\* returns the per-bin outputs as they are exactly when the requested values
\* equal the training grid of that axis, and goes on to interpolate whenever
\* they differ from it, requested values that are all zero included.
C12_InterpolatesOffGridOnly ==
    (/\ epc = "asked" /\ emu.variant = "SpicyBuffalo"
     /\ RequestedBins # <<>>
     /\ out.res.exc # "none" => out.res.interpolated)
    => (out.res.interpolated <=> RequestedBins # OwnedBins)

(***************************************************************************)
(* train_metric: the hyperparameters of the kernel                         *)
(*                                                                         *)
(* A hyperparameter vector is named by a number, 0 being the vector the    *)
(* kernel is built with.  A GP is factorized under the vector its kernel   *)
(* held at its last compute; writing kernel[:] marks the kernel dirty, and *)
(* a GP recomputes when its kernel is dirty, which clears the mark.        *)
(***************************************************************************)
\* hyperparameter vectors beside the initial one, and the objective
\* evaluations of one minimization
MaxHyper == 2
MaxEvals == 3

\* the log-likelihoods a GP may report: finite, NaN, or infinite
LLValues == {Fin(-1), Fin(1), NaN, NegInf, PosInf}

\* 1e25, held as the largest finite value of the model's integers
Penalty == Fin(2147483647)

FNeg(a) ==
    CASE isnan(a) -> NaN
      [] a.k = "-inf" -> PosInf
      [] a.k = "+inf" -> NegInf
      [] OTHER -> Rat(-a.n, a.d)

\* the GP instances an emulator holds
NGps(e) ==
    IF e.variant = "OriginalRecipe" THEN 1
    ELSE IF e.variant = "SpicyBuffalo" THEN Len(e.emulators)
    ELSE Len(e.emulators) * Len(e.emulators[1])

\* a build that would leave the kernel written after the last compute
BuiltGeorge_dirty(e) ==
    [kernel |-> [vector |-> 1, dirty |-> TRUE],
     gps |-> [i \in 1..NGps(e) |-> [under |-> 0]]]

\* the kernel and the GPs as _build_gp leaves them: every GP computed under
\* the initial vector
BuiltGeorge(e) ==
    [kernel |-> [vector |-> 0, dirty |-> FALSE],
     gps |-> [i \in 1..NGps(e) |-> [under |-> 0]]]

\* kernel[:] = p
SetKernel(g, p) == [g EXCEPT !.kernel = [vector |-> p, dirty |-> TRUE]]

\* GP.recompute() of the i-th GP: a compute under the kernel's vector when
\* the kernel is dirty
Recompute(g, i) ==
    IF g.kernel.dirty
    THEN [g EXCEPT !.gps[i].under = g.kernel.vector, !.kernel.dirty = FALSE]
    ELSE g

\* what train_metric gives: the exception if any, the evaluations of the
\* objective (the vector, and the value handed to the optimizer), the
\* optimizer's results.x and results.success, and the returned value
Trained(exc, evals, x, success, g) ==
    [exc |-> exc, evals |-> evals, x |-> x, success |-> success,
     ret |-> success, george |-> g]

\* nll(p) of OriginalRecipe.train_metric, ll being the log-likelihood
nll_OR(ll) == IF isfinite(ll) THEN FNeg(ll) ELSE Penalty

\* OriginalRecipe.train_metric: op.minimize evaluates the objective at ps
\* (the initial vector first), lls being the log-likelihood at each vector,
\* and reports results.x = ps[xk] with results.success = success
train_metric_OR(e, g, ps, lls, xk, success) ==
    IF e.method # "gp" THEN Trained("AssertionError", <<>>, 0, FALSE, g)
    ELSE LET evals == [k \in 1..Len(ps) |->
                         [p |-> ps[k], value |-> nll_OR(lls[ps[k]])]]
             after == Recompute(SetKernel(g, ps[Len(ps)]), 1)
         IN  Trained("none", evals, ps[xk], success,
                     Recompute(SetKernel(after, ps[xk]), 1))

\* SpicyBuffalo.train_metric: the first nll(p) writes the kernel and takes
\* np.mean of a generator
train_metric_SB(e, g, ps, lls, xk, success) ==
    IF e.method # "gp" THEN Trained("AssertionError", <<>>, 0, FALSE, g)
    ELSE Trained("TypeError", <<>>, 0, FALSE, SetKernel(g, ps[1]))

\* ExtraCrispy.train_metric: self.emulators[0] is the list of the GPs of
\* the first redshift bin, which has no kernel
train_metric_EC(e, g, ps, lls, xk, success) ==
    IF e.method # "gp" THEN Trained("AssertionError", <<>>, 0, FALSE, g)
    ELSE Trained("AttributeError", <<>>, 0, FALSE, g)

\* the predictions of one _emulate_helper call, GP after GP: each GP
\* recomputes if it finds the kernel dirty; stale collects the GPs that
\* predicted from a factorization under another vector than the kernel's
RECURSIVE PredictAll(_, _, _)
PredictAll(g, i, stale) ==
    IF i > Len(g.gps) THEN [george |-> g, stale |-> stale]
    ELSE LET h == Recompute(g, i)
         IN  PredictAll(h, i + 1,
                        IF h.gps[i].under # h.kernel.vector
                        THEN stale \cup {i} ELSE stale)

(***************************************************************************)
(* Training the metric of a built emulator                                 *)
(***************************************************************************)
AllVariants == {"OriginalRecipe", "ExtraCrispy", "SpicyBuffalo"}

\* a clean corpus of one directory, and the emulator about to be built on it
InitTrain ==
    /\ \E variant \in AllVariants, F \in 1..MaxHod, nb \in 1..MaxScaleBins,
          Z \in 1..MaxEpochs :
         LET hod == HodParams(F, [j \in 1..F |-> 1], MaxPoints)
         IN  /\ corpus = Corpus(1, [k \in 1..Z |-> ScaleFactors[k]], "LHC",
                                makeLHC(hod, MaxPoints), nb, {})
             /\ emu = IF variant = "SpicyBuffalo"
                      THEN NewBuffalo("r", BuffaloParams("r", hod), <<>>, "None")
                      ELSE NewEmu(variant, OrderedParams(variant, hod, FALSE),
                                  <<>>, "None")
    /\ epc = "new"
    /\ out = <<>>
    /\ george = <<>>
    /\ tpc = "idle"
    /\ LikeOff /\ SortOff /\ McmcOff /\ LooOff /\ CatOff

\* emu.train_metric(**kwargs) on a built emulator
TrainMetric ==
    /\ epc = "built" /\ tpc = "idle"
    /\ \E n \in 1..MaxEvals, success \in BOOLEAN :
         \E ps \in [1..n -> 0..MaxHyper], lls \in [0..MaxHyper -> LLValues],
            xk \in 1..n :
           \* the first evaluation is at the initial vector, whose
           \* factorization the build has made; results.x is a vector of
           \* finite likelihood
           /\ ps[1] = 0 /\ isfinite(lls[0]) /\ isfinite(lls[ps[xk]])
           /\ LET g == BuiltGeorge(emu)
                  r == IF emu.variant = "OriginalRecipe"
                       THEN train_metric_OR(emu, g, ps, lls, xk, success)
                       ELSE IF emu.variant = "SpicyBuffalo"
                       THEN train_metric_SB(emu, g, ps, lls, xk, success)
                       ELSE train_metric_EC(emu, g, ps, lls, xk, success)
              IN  /\ out' = [r EXCEPT !.george = <<>>] @@ [stale |-> {}]
                  /\ george' = r.george
    /\ tpc' = "trained"
    /\ UNCHANGED <<corpus, emu, epc, likeVars, sortVars, mcmcVars, looVars, cat>>

\* a prediction after train_metric: every GP of the emulator predicts
PredictAfterTraining ==
    /\ tpc = "trained"
    /\ LET r == PredictAll(george, 1, {})
       IN  /\ george' = r.george
           /\ out' = [out EXCEPT !.stale = r.stale]
    /\ tpc' = "predicted"
    /\ UNCHANGED <<corpus, emu, epc, likeVars, sortVars, mcmcVars, looVars, cat>>

NextTrain ==
    \/ LoadTrainingData_OR \/ LoadTrainingData_EC \/ LoadTrainingData_SB
    \/ BuildGP_OR \/ BuildGP_EC \/ BuildGP_SB
    \/ TrainMetric \/ PredictAfterTraining
SpecTrain == InitTrain /\ [][NextTrain]_vars

\* C14: train_metric raises nothing and returns the optimizer's success
\* flag; every value of the objective it handed the optimizer is finite, the
\* negated log-likelihood where that is finite and the penalty elsewhere.
C14_TrainMetricObjectiveFinite ==
    tpc = "trained" =>
        /\ out.exc = "none"
        /\ out.ret = out.success
        /\ Len(out.evals) >= 1
        /\ \A k \in 1..Len(out.evals) : isfinite(out.evals[k].value)

\* C15: train_metric returns, and from then on the kernel holds the
\* optimizer's result, every GP of the emulator is factorized under it, and
\* no GP predicts from a factorization made under another vector.
C15_TrainMetricRefitsEveryGP ==
    tpc \in {"trained", "predicted"} =>
        /\ out.exc = "none"
        /\ george.kernel.vector = out.x
        /\ tpc = "trained" =>
              /\ ~george.kernel.dirty
              /\ \A i \in 1..Len(george.gps) : george.gps[i].under = out.x
        /\ out.stale = {}

(***************************************************************************)
(* Setting up: the checks of Emu.__init__, make_training_data and Cat.load *)
(*                                                                         *)
(* Scale factors are in units of 1e-5, so that the tolerance 0.05 is 5000. *)
(***************************************************************************)
\* jobs asked of make_training_data
MaxJobs == 2

valid_methods == {"gp", "svr", "gbdt", "rf", "krr"}

\* the checks Emu.__init__ makes before it loads anything: the exception
\* they raise, or "none"
init_checks(method, independent_variable) ==
    IF method \notin valid_methods THEN "AssertionError"
    ELSE IF independent_variable = "bias" THEN "NotImplementedError"
    ELSE IF independent_variable \notin {"None", "r2"} THEN "AssertionError"
    ELSE "none"

\* a[lo:hi] of python, indices from 0
Slice(a, lo, hi) ==
    [k \in 1..Max(0, Min(hi, Len(a)) - Min(lo, Len(a))) |-> a[Min(lo, Len(a)) + k]]

\* min(a - cat.scale_factors)
MinDiff(a, sfs) ==
    CHOOSE m \in {a - sfs[k] : k \in 1..Len(sfs)} :
        \A k \in 1..Len(sfs) : m <= a - sfs[k]

\* int(np.ceil(float(n) / d))
CeilDiv(n, d) == (n + d - 1) \div d

\* what make_training_data did: the exception if any, the directories it
\* made (each with its global file and the points file of every job) and the
\* number of jobs it submitted
Made(exc, dirs) ==
    [exc |-> exc, dirs |-> dirs,
     submitted |-> SumTo([k \in 1..Len(dirs) |-> Len(dirs[k].jobs)], Len(dirs))]

\* the directories make_training_data lays out: one for each scale factor,
\* the points sliced over the jobs, the last job taking the remainder
Layout(scale_factors, method, bins, points, n_jobs) ==
    LET n_jobs_per_a == CeilDiv(n_jobs, Len(scale_factors))
        points_per_job == Len(points) \div n_jobs_per_a
    IN  [k \in 1..Len(scale_factors) |->
            [a |-> scale_factors[k], sampling_method |-> method, bins |-> bins,
             jobs |-> [j \in 1..n_jobs_per_a |->
                          IF j = n_jobs_per_a
                          THEN Slice(points, (j - 1) * points_per_job, Len(points))
                          ELSE Slice(points, (j - 1) * points_per_job,
                                     j * points_per_job)]]]

\* make_training_data with the method checked only after the loop that
\* writes the directories
make_training_data_checked_late(method, system, all, asked, cat_sfs, hod, n_points, n_jobs, bins) ==
    LET scale_factors == IF all THEN cat_sfs ELSE asked
        points == IF method = "FHC" THEN makeFHC(hod, n_points)
                  ELSE makeLHC(hod, n_points)
    IN  IF ~all /\ \E k \in 1..Len(asked) : ~(MinDiff(asked[k], cat_sfs) < 5000)
        THEN Made("AssertionError", <<>>)
        ELSE IF system \notin {"ki-ls", "sherlock"} THEN Made("ValueError", <<>>)
        ELSE Made(IF method \notin {"LHC", "FHC"} THEN "ValueError" ELSE "none",
                  Layout(scale_factors, method, bins, points, n_jobs))

\* trainingData.make_training_data: the config file gives method, system,
\* the scale factors (all of the catalog's, or those asked), n_points,
\* n_jobs and bins; cat_sfs are the scale factors of the catalog
make_training_data(method, system, all, asked, cat_sfs, hod, n_points, n_jobs, bins) ==
    LET scale_factors == IF all THEN cat_sfs ELSE asked
        points == IF method = "LHC" THEN makeLHC(hod, n_points)
                  ELSE makeFHC(hod, n_points)
    IN  IF ~all /\ \E k \in 1..Len(asked) : ~(MinDiff(asked[k], cat_sfs) < 5000)
        THEN Made("AssertionError", <<>>)
        ELSE IF method \notin {"LHC", "FHC"} THEN Made("ValueError", <<>>)
        ELSE IF system \notin {"ki-ls", "sherlock"} THEN Made("ValueError", <<>>)
        ELSE Made("none", Layout(scale_factors, method, bins, points, n_jobs))

\* Cat._return_nearest_sf(a, tol = 0.05): the scale factor, 0 for None
return_nearest_sf(a, sfs) ==
    IF \E k \in 1..Len(sfs) : sfs[k] = a THEN a
    ELSE LET idx == CHOOSE i \in 1..Len(sfs) :
                        /\ \A k \in 1..Len(sfs) : Abs(sfs[i] - a) <= Abs(sfs[k] - a)
                        /\ \A k \in 1..(i - 1) : Abs(sfs[k] - a) > Abs(sfs[i] - a)
         IN  IF Abs(sfs[idx] - a) < 5000 THEN sfs[idx] ELSE 0

\* Cat.load(scale_factor): the exception if any and the scale factor of the
\* catalog it loads
cat_load(scale_factor, sfs) ==
    IF ~(0 < scale_factor /\ scale_factor <= 100000)
    THEN [exc |-> "AssertionError", a |-> 0]
    ELSE IF return_nearest_sf(scale_factor, sfs) = 0
    THEN [exc |-> "ValueError", a |-> 0]
    ELSE [exc |-> "none", a |-> return_nearest_sf(scale_factor, sfs)]

\* the scale factors a caller asks for, and those a catalog may hold
AskedScaleFactors == {10000, 46000, 50000, 56000, 100000, 106000}
CatScaleFactors == {<<100000>>, <<50000, 100000>>}

InitSetup ==
    /\ corpus = <<>> /\ emu = <<>> /\ out = <<>>
    /\ epc = "off"
    /\ LikeOff /\ SortOff /\ McmcOff /\ TrainOff /\ LooOff /\ CatOff

\* Emu.__init__ up to the call of load_training_data, on a clean corpus
Construct ==
    /\ epc = "off"
    /\ \E variant \in AllVariants, method \in {"gp", "GP", "nn"},
          iv \in {"None", "r2", "bias", "xi"}, Z \in 1..MaxEpochs :
         LET hod == HodParams(1, <<1>>, MaxPoints)
             exc == init_checks(method, iv)
         IN  /\ corpus' = Corpus(1, [k \in 1..Z |-> ScaleFactors[k]], "LHC",
                                 makeLHC(hod, MaxPoints), 1, {})
             /\ out' = [method |-> method, independent_variable |-> iv,
                        exc |-> exc]
             /\ emu' = IF exc # "none" THEN <<>>
                       ELSE IF variant = "SpicyBuffalo"
                       THEN NewBuffalo("r", BuffaloParams("r", hod), <<>>, iv)
                       ELSE NewEmu(variant, OrderedParams(variant, hod, FALSE),
                                   <<>>, iv)
             /\ epc' = IF exc # "none" THEN "rejected" ELSE "new"
    /\ UNCHANGED <<likeVars, sortVars, mcmcVars, trainVars, looVars, cat>>

\* make_training_data(config_filename, ordered_params)
MakeTrainingData ==
    /\ epc = "off"
    /\ \E method \in {"LHC", "FHC", "MCMC"},
          system \in {"ki-ls", "sherlock", "slurm"}, all \in BOOLEAN,
          n \in 1..2, cat_sfs \in CatScaleFactors, F \in 1..MaxHod,
          n_points \in 1..MaxPoints, n_jobs \in 1..MaxJobs :
         \E asked \in [1..n -> AskedScaleFactors] :
           /\ all => asked = [k \in 1..n |-> 100000]
           /\ out' = [method |-> method, system |-> system, all |-> all,
                      asked |-> asked, cat_sfs |-> cat_sfs,
                      n_points |-> n_points, n_jobs |-> n_jobs,
                      res |-> make_training_data(
                                  method, system, all, asked, cat_sfs,
                                  HodParams(F, [j \in 1..F |-> 0], n_points),
                                  n_points, n_jobs, Bins(1))]
    /\ epc' = "made"
    /\ UNCHANGED <<corpus, emu, likeVars, sortVars, mcmcVars, trainVars, looVars, cat>>

\* cat.load(scale_factor)
CatLoad ==
    /\ epc = "off"
    /\ \E scale_factor \in AskedScaleFactors \cup {0},
          cat_sfs \in CatScaleFactors :
         out' = [scale_factor |-> scale_factor, cat_sfs |-> cat_sfs,
                 res |-> cat_load(scale_factor, cat_sfs)]
    /\ epc' = "catalog"
    /\ UNCHANGED <<corpus, emu, likeVars, sortVars, mcmcVars, trainVars, looVars, cat>>

NextSetup ==
    \/ Construct \/ MakeTrainingData \/ CatLoad
    \/ LoadTrainingData_OR \/ LoadTrainingData_EC \/ LoadTrainingData_SB
SpecSetup == InitSetup /\ [][NextSetup]_vars

\* whether every scale factor asked of make_training_data passes its check
ScaleFactorsPass ==
    out.all \/ \A k \in 1..Len(out.asked) :
                  MinDiff(out.asked[k], out.cat_sfs) < 5000

Nearest(a, sfs) ==
    CHOOSE m \in {Abs(a - sfs[k]) : k \in 1..Len(sfs)} :
        \A k \in 1..Len(sfs) : m <= Abs(a - sfs[k])

\* C18: make_training_data makes a directory only for a scale factor within
\* the tolerance of the nearest scale factor of the catalog, and fails when
\* one asked lies farther; Cat.load loads the nearest scale factor, and fails
\* when that lies farther than the tolerance.
C18_NearestEpochWithinTolerance ==
    /\ (epc = "made" /\ ~out.all) =>
          /\ \A k \in 1..Len(out.res.dirs) :
                Nearest(out.res.dirs[k].a, out.cat_sfs) <= 5000
          /\ (\E k \in 1..Len(out.asked) :
                 Nearest(out.asked[k], out.cat_sfs) > 5000)
             => out.res.exc = "AssertionError"
    /\ (epc = "catalog" /\ out.scale_factor > 0) =>
          /\ out.res.exc = "none" =>
                Abs(out.res.a - out.scale_factor)
                    = Nearest(out.scale_factor, out.cat_sfs)
          /\ Nearest(out.scale_factor, out.cat_sfs) > 5000
             => out.res.exc \in {"ValueError", "AssertionError"}

(***************************************************************************)
(* run_mcmc: Emu.run_mcmc of the emulator module and run_mcmc of the       *)
(* inference module, around emcee's EnsembleSampler                        *)
(***************************************************************************)
cpu_count == 2
MaxWalkers == 4
MaxSteps == 2
McmcPoints == 3

\* check_cores with the clamp left out
check_cores_unclamped(nc) ==
    IF ~nc.all /\ nc.n <= 0 THEN [exc |-> "AssertionError", n |-> 0, warned |-> FALSE]
    ELSE IF ~nc.all /\ nc.n % nc.d # 0
    THEN [exc |-> "AssertionError", n |-> 0, warned |-> FALSE]
    ELSE IF nc.all THEN [exc |-> "none", n |-> cpu_count, warned |-> FALSE]
    ELSE [exc |-> "none", n |-> nc.n \div nc.d, warned |-> FALSE]

\* the checks of n_cores / ncores, a count being the number n / d: 'all' or
\* a positive whole count, clamped to the machine's cores with a warning
check_cores(nc) ==
    IF ~nc.all /\ nc.n <= 0 THEN [exc |-> "AssertionError", n |-> 0, warned |-> FALSE]
    \* int(n_cores) == n_cores
    ELSE IF ~nc.all /\ nc.n % nc.d # 0
    THEN [exc |-> "AssertionError", n |-> 0, warned |-> FALSE]
    ELSE IF nc.all THEN [exc |-> "none", n |-> cpu_count, warned |-> FALSE]
    ELSE IF nc.n \div nc.d > cpu_count
    THEN [exc |-> "none", n |-> cpu_count, warned |-> TRUE]
    ELSE [exc |-> "none", n |-> nc.n \div nc.d, warned |-> FALSE]

\* emcee.EnsembleSampler(nwalkers, dim, ...): an even number of walkers, at
\* least twice the dimension
EnsembleSampler(nwalkers, dim) ==
    IF nwalkers % 2 # 0 \/ nwalkers < 2 * dim THEN "AssertionError" ELSE "none"

\* a position inside the prior of every parameter, and one outside
ThetaIn(e, dim) == [i \in 1..dim |-> Fin(e.ordered_params[i].low + 1)]
ThetaOut(dim) == [i \in 1..dim |-> Fin(-1)]
Positions(e, nwalkers, dim) == [1..nwalkers -> {ThetaIn(e, dim), ThetaOut(dim)}]

\* the emulator as the likelihood sees it for theta: the variant's
\* emulate_wrt_r_z hands emulate the named values of theta, OriginalRecipe
\* adding 'r' = log10(r_bin_centers) unless that is all zeros
ViewOf(e, names, th) ==
    LET n == Min(Len(names), Len(th))
        em_params == [k \in {names[i] : i \in 1..n} |->
                        <<th[CHOOSE i \in 1..n : names[i] = k].n>>]
        rpc == [b \in 1..Len(e.scale_bin_centers) |-> log10(e.scale_bin_centers[b])]
        vep == IF /\ e.variant = "OriginalRecipe"
                  /\ "r" \notin DOMAIN em_params
                  /\ \E b \in 1..Len(rpc) : rpc[b] # 0
               THEN [k \in (DOMAIN em_params) \cup {"r"} |->
                        IF k = "r" THEN rpc ELSE em_params[k]]
               ELSE em_params
    IN  [variant |-> e.variant,
         out |-> IF e.variant = "ExtraCrispy" /\ {"r", "z"} \cap DOMAIN em_params # {}
                 THEN Emulated("AssertionError", <<>>, FALSE, <<0, 0>>)
                 ELSE emulate(e, vep, FALSE),
         ycov |-> Zeros(Len(e.scale_bin_centers))]

\* the measurement handed to run_mcmc: y = 0 in every training scale bin,
\* with the unit covariance
Measured(e) ==
    LET nb == Len(e.scale_bin_centers)
        unit == [i \in 1..nb |-> [j \in 1..nb |-> IF i = j THEN 1 ELSE 0]]
    IN  [y |-> [b \in 1..nb |-> 0], cov |-> unit]

\* the names run_mcmc of the inference module is asked to constrain: the
\* parameters without a bin
SampledNames(e) ==
    LET names == [j \in 1..Len(e.ordered_params) |-> e.ordered_params[j].name]
    IN  SelectSeq(names, LAMBDA n : n \notin {"r", "z"})

\* one evaluation of the sampler's lnprob at theta
SamplerLnprob(m, e, th) ==
    LET names == [j \in 1..Len(e.ordered_params) |-> e.ordered_params[j].name]
    IN  IF m.driver = "emu"
        THEN lnprob_emu(th, [ordered_params |-> e.ordered_params, zq |-> "none",
                             obs |-> <<[emu |-> ViewOf(e, names, th),
                                        y |-> Measured(e).y,
                                        cov |-> Measured(e).cov]>>]).prob
        ELSE lnprob_runMCMC(th, [ordered_params |-> e.ordered_params,
                                 param_names |-> SampledNames(e),
                                 zq |-> "none", merge |-> m.merge,
                                 obs |-> <<[emu |-> ViewOf(e, SampledNames(e), th),
                                            y |-> Measured(e).y,
                                            combined_inv_cov |-> Measured(e).cov]>>]).prob

\* the exception of the first walker whose lnprob raises at positions pos,
\* "none" if no evaluation raises
FirstRaise(m, e, pos) ==
    LET raised == {k \in 1..Len(pos) : SamplerLnprob(m, e, pos[k]).kind = "raise"}
    IN  IF raised = {} THEN "none"
        ELSE SamplerLnprob(m, e, pos[CHOOSE k \in raised : \A o \in raised : k <= o]).exc

\* Emu.run_mcmc up to sampler.run_mcmc: the exception it raises, if any
run_mcmc_emu_setup(m, e) ==
    IF check_cores(m.n_cores).exc # "none" THEN check_cores(m.n_cores).exc
    ELSE EnsembleSampler(m.nwalkers, e.sampling_ndim)

\* runMCMC._run_tests, as run_mcmc calls it; _emu is the module's global,
\* which run_mcmc never binds
run_tests(m) ==
    IF check_cores(m.n_cores).exc # "none" THEN check_cores(m.n_cores).exc
    \* a single measurement is reshaped to columns: cov.shape[1] does not exist
    ELSE IF m.ys_ndim = 1 THEN "IndexError"
    ELSE IF m.global_emu = "undefined" THEN "NameError"
    \* a list has no emulator_ndim, an Emu no check_param_names
    ELSE "AttributeError"

\* runMCMC.run_mcmc up to sampler.run_mcmc: the exception it raises, if any
run_mcmc_runMCMC_setup(m, e) ==
    IF run_tests(m) # "none" THEN run_tests(m)
    \* for i, _emu, cov in enumerate(covs): two values to unpack into three
    ELSE IF m.nobs > 0 THEN "ValueError"
    ELSE IF EnsembleSampler(m.nwalkers, Len(SampledNames(e))) # "none"
    THEN "AssertionError"
    ELSE IF m.resume /\ m.nburn # 0 THEN "AssertionError"
    ELSE "none"

\* runMCMC.run_mcmc_iterator up to sampler.sample: the same checks, after
\* the module's _emu was bound to the list of emulators
run_mcmc_iterator_setup(m, e) ==
    run_mcmc_runMCMC_setup([m EXCEPT !.global_emu = "list"], e)

\* runMCMC._random_initial_guess: for each parameter the centre and the
\* width of the Gaussian the walkers are drawn from
random_initial_guess(e, param_names) ==
    [i \in 1..Len(param_names) |->
        LET b == get_param_bounds(e.ordered_params, param_names[i])
        IN  [centre |-> Rat(b[1] + b[2], 2), width |-> Rat(Abs(b[2] - b[1]), 6)]]

\* where pos0 comes from: the last positions of the previous chain when
\* resuming, else the random initial guess
InitialPositions(m, e) ==
    IF m.resume THEN [from |-> "previous", ball |-> <<>>]
    ELSE [from |-> "random", ball |-> random_initial_guess(e, SampledNames(e))]

\* sampler.chain[:, nburn:, :].reshape((-1, dim)) after `stored` steps, and
\* sampler.lnprobability[:, nburn:].reshape((-1,))
collapse(nwalkers, stored, nburn, dim) ==
    LET kept == Max(stored - nburn, 0)
    IN  IF dim = 0 THEN [exc |-> "ValueError", shape |-> <<0, 0>>, n |-> 0]
        ELSE [exc |-> "none", shape |-> <<nwalkers * kept, dim>>,
              n |-> nwalkers * kept]

\* the dimension the sampler of run m works in
SamplerDim(m, e) ==
    IF m.driver = "emu" THEN e.sampling_ndim ELSE Len(SampledNames(e))

\* 'all', the whole counts from -1 to one more than the machine has, and 3/2
CoreChoices ==
    {[all |-> TRUE, n |-> 0, d |-> 1]}
        \cup {[all |-> FALSE, n |-> k, d |-> 1] : k \in -1..(cpu_count + 1)}
        \cup {[all |-> FALSE, n |-> 3, d |-> 2]}

\* a clean corpus of one directory and one epoch at a = 1, laid out on
\* McmcPoints points per parameter, and the emulator about to be built on it
InitMcmc ==
    /\ \E variant \in EmuVariants, F \in 1..MaxHod, nb \in 1..MaxScaleBins :
         LET hod == HodParams(F, [j \in 1..F |-> 1], McmcPoints)
         IN  /\ corpus = Corpus(1, <<ScaleFactors[1]>>, "LHC",
                                makeLHC(hod, McmcPoints), nb, {})
             /\ emu = NewEmu(variant, OrderedParams(variant, hod, FALSE),
                             <<>>, "None")
    /\ epc = "new"
    /\ out = <<>>
    /\ LikeOff /\ SortOff /\ McmcOff /\ TrainOff /\ LooOff /\ CatOff

\* the call of run_mcmc on the built emulator, with its arguments; _emu is
\* the module-level name of the inference module as the call finds it
CallRunMcmc ==
    /\ epc = "built" /\ mpc = "off"
    /\ \E driver \in {"emu", "runMCMC", "iterator"}, nwalkers \in 1..MaxWalkers,
          nsteps \in 1..MaxSteps, nburn \in 0..(MaxSteps + 1),
          n_cores \in CoreChoices, return_lnprob \in BOOLEAN,
          merge \in {"HEAD", "theirs"}, global_emu \in {"undefined", "list"},
          ys_ndim \in 1..2, resume \in BOOLEAN :
         /\ driver = "emu" =>
               /\ ~return_lnprob /\ ~resume /\ merge = "theirs"
               /\ global_emu = "undefined" /\ ys_ndim = 1
         /\ driver = "iterator" => global_emu = "list"
         /\ mc' = [driver |-> driver, nwalkers |-> nwalkers,
                   nsteps |-> nsteps, nburn |-> nburn, n_cores |-> n_cores,
                   return_lnprob |-> return_lnprob, merge |-> merge,
                   global_emu |-> global_emu, ys_ndim |-> ys_ndim,
                   resume |-> resume, nobs |-> 1, warned |-> FALSE,
                   threads |-> 0,
                   pos |-> <<>>, pos0 |-> [from |-> "none", ball |-> <<>>],
                   started |-> FALSE, stored |-> 0, yielded |-> 0,
                   exc |-> "none", chain_shape |-> <<0, 0>>, lnprob_len |-> 0]
    /\ mpc' = "called"
    /\ UNCHANGED <<likeVars, sortVars, loadVars, trainVars, looVars, cat>>

\* Emu.run_mcmc up to the call of sampler.run_mcmc: the checks, the sampler
\* and the draw of pos0
StartEmu ==
    /\ mpc = "called" /\ mc.driver = "emu"
    /\ LET x == run_mcmc_emu_setup(mc, emu)
       IN  IF x # "none"
           THEN /\ mc' = [mc EXCEPT !.exc = x,
                                    !.warned = check_cores(mc.n_cores).warned]
                /\ mpc' = "failed"
           ELSE /\ \E pos0 \in Positions(emu, mc.nwalkers, SamplerDim(mc, emu)) :
                      mc' = [mc EXCEPT !.pos = pos0,
                                       !.threads = check_cores(mc.n_cores).n,
                                       !.warned = check_cores(mc.n_cores).warned]
                /\ mpc' = "sampling"
    /\ UNCHANGED <<likeVars, sortVars, loadVars, trainVars, looVars, cat>>

\* runMCMC.run_mcmc up to the call of sampler.run_mcmc
StartRunMCMC ==
    /\ mpc = "called" /\ mc.driver = "runMCMC"
    /\ LET x == run_mcmc_runMCMC_setup(mc, emu)
       IN  IF x # "none"
           THEN /\ mc' = [mc EXCEPT !.exc = x,
                                    !.warned = check_cores(mc.n_cores).warned]
                /\ mpc' = "failed"
           ELSE /\ \E pos0 \in Positions(emu, mc.nwalkers, SamplerDim(mc, emu)) :
                      mc' = [mc EXCEPT !.pos = pos0,
                                       !.pos0 = InitialPositions(mc, emu),
                                       !.threads = check_cores(mc.n_cores).n,
                                       !.warned = check_cores(mc.n_cores).warned]
                /\ mpc' = "sampling"
    /\ UNCHANGED <<likeVars, sortVars, loadVars, trainVars, looVars, cat>>

\* runMCMC.run_mcmc_iterator up to the first iteration of sampler.sample
StartIterator ==
    /\ mpc = "called" /\ mc.driver = "iterator"
    /\ LET x == run_mcmc_iterator_setup(mc, emu)
       IN  IF x # "none"
           THEN /\ mc' = [mc EXCEPT !.exc = x,
                                    !.warned = check_cores(mc.n_cores).warned]
                /\ mpc' = "failed"
           ELSE /\ \E pos0 \in Positions(emu, mc.nwalkers, SamplerDim(mc, emu)) :
                      mc' = [mc EXCEPT !.pos = pos0,
                                       !.pos0 = InitialPositions(mc, emu),
                                       !.threads = check_cores(mc.n_cores).n,
                                       !.warned = check_cores(mc.n_cores).warned]
                /\ mpc' = "sampling"
    /\ UNCHANGED <<likeVars, sortVars, loadVars, trainVars, looVars, cat>>

\* sampler.run_mcmc, first the log-probability of every walker at pos0
InitialLnprob ==
    /\ mpc = "sampling" /\ ~mc.started
    /\ LET x == FirstRaise(mc, emu, mc.pos)
       IN  IF x # "none"
           THEN mc' = [mc EXCEPT !.exc = x] /\ mpc' = "failed"
           ELSE mc' = [mc EXCEPT !.started = TRUE] /\ mpc' = "sampling"
    /\ UNCHANGED <<likeVars, sortVars, loadVars, trainVars, looVars, cat>>

\* one iteration of the sampler: a proposal q for every walker, its
\* log-probability, and the move of the walkers that accept (a proposal of
\* log-probability -inf is never accepted)
Step ==
    /\ mpc = "sampling" /\ mc.started /\ mc.stored < mc.nsteps
    /\ \E q \in Positions(emu, mc.nwalkers, SamplerDim(mc, emu)) :
         LET x == FirstRaise(mc, emu, q)
         IN  IF x # "none"
             THEN mc' = [mc EXCEPT !.exc = x] /\ mpc' = "failed"
             ELSE /\ \E acc \in SUBSET {k \in 1..mc.nwalkers :
                                         isfinite(SamplerLnprob(mc, emu, q[k]).val)} :
                        mc' = [mc EXCEPT
                                 !.pos = [k \in 1..mc.nwalkers |->
                                            IF k \in acc THEN q[k] ELSE mc.pos[k]],
                                 !.stored = mc.stored + 1,
                                 \* the iterator yields every step it takes
                                 !.yielded = IF mc.driver = "iterator"
                                             THEN mc.yielded + 1 ELSE 0]
                  /\ mpc' = "sampling"
    /\ UNCHANGED <<likeVars, sortVars, loadVars, trainVars, looVars, cat>>

\* the return of run_mcmc: the chain without its burn-in, collapsed; the
\* iterator is exhausted, having yielded nwalkers rows at every step
Finish ==
    /\ mpc = "sampling" /\ mc.started /\ mc.stored = mc.nsteps
    /\ LET c == collapse(mc.nwalkers, mc.stored, mc.nburn, SamplerDim(mc, emu))
       IN  IF mc.driver = "iterator"
           THEN /\ mc' = [mc EXCEPT
                            !.chain_shape = <<mc.nwalkers * mc.yielded,
                                              SamplerDim(mc, emu)>>,
                            !.lnprob_len = IF mc.return_lnprob
                                           THEN mc.nwalkers * mc.yielded ELSE 0]
                /\ mpc' = "done"
           ELSE IF c.exc # "none"
           THEN mc' = [mc EXCEPT !.exc = c.exc] /\ mpc' = "failed"
           ELSE /\ mc' = [mc EXCEPT !.chain_shape = c.shape,
                                    !.lnprob_len = IF mc.return_lnprob THEN c.n ELSE 0]
                /\ mpc' = "done"
    /\ UNCHANGED <<likeVars, sortVars, loadVars, trainVars, looVars, cat>>

NextMcmc ==
    \/ LoadTrainingData_OR \/ LoadTrainingData_EC \/ BuildGP_OR \/ BuildGP_EC
    \/ CallRunMcmc \/ StartEmu \/ StartRunMCMC \/ StartIterator
    \/ InitialLnprob \/ Step \/ Finish
SpecMcmc == InitMcmc /\ [][NextMcmc]_vars

\* the free (sampled) parameters of a run: the parameters of the manifest
\* that are not a bin
FreeParams == Len(SampledNames(emu))

\* C4: for every backend variant and every nwalkers, nsteps and nburn with
\* 0 <= nburn <= nsteps (the sampler's own demands on nwalkers and a valid
\* core count granted), run_mcmc returns, its chain has exactly
\* (nsteps - nburn) * nwalkers rows and one column per free parameter, and
\* with return_lnprob the log-probabilities are as many as the rows.
C4_RunMcmcChainShape ==
    (/\ mpc \in {"done", "failed"}
     /\ mc.driver # "iterator"
     /\ mc.nburn <= mc.nsteps
     /\ check_cores(mc.n_cores).exc = "none"
     /\ mc.nwalkers % 2 = 0 /\ mc.nwalkers >= 2 * FreeParams
     /\ mc.resume => mc.nburn = 0)
    => /\ mpc = "done"
       /\ mc.chain_shape = <<(mc.nsteps - mc.nburn) * mc.nwalkers, FreeParams>>
       /\ mc.return_lnprob => mc.lnprob_len = (mc.nsteps - mc.nburn) * mc.nwalkers

\* whether the arguments of a run meet the demands of the checks that come
\* before the initial positions: a valid core count, and the sampler's own
\* demands on nwalkers
RunnableArgs ==
    /\ check_cores(mc.n_cores).exc = "none"
    /\ mc.nwalkers % 2 = 0 /\ mc.nwalkers >= 2 * FreeParams

\* C19: run_mcmc and run_mcmc_iterator of the inference module, asked to
\* resume with nburn # 0, raise AssertionError without a sampler step; asked
\* to resume with nburn = 0 they start from the previous chain's positions;
\* not asked to resume they start from Gaussian balls centred on the
\* midpoint of each parameter's bounds, of width |high - low| / 6.
C19_ResumeDemandsNoBurnIn ==
    (/\ mpc \in {"failed", "sampling", "done"}
     /\ mc.driver \in {"runMCMC", "iterator"}
     /\ RunnableArgs)
    => IF mc.resume /\ mc.nburn # 0
       THEN mpc = "failed" /\ mc.exc = "AssertionError" /\ mc.stored = 0
       ELSE /\ mc.pos0.from = IF mc.resume THEN "previous" ELSE "random"
            /\ ~mc.resume =>
                  /\ Len(mc.pos0.ball) = FreeParams
                  /\ \A i \in 1..FreeParams :
                        LET b == get_param_bounds(emu.ordered_params,
                                                  SampledNames(emu)[i])
                        IN  /\ FEq(mc.pos0.ball[i].centre, Rat(b[1] + b[2], 2))
                            /\ FEq(mc.pos0.ball[i].width, Rat(Abs(b[2] - b[1]), 6))

\* C20: run_mcmc_iterator, its arguments runnable, takes nsteps steps from
\* its initial positions and is exhausted having yielded the steps after the
\* first nburn: (nsteps - nburn) * nwalkers rows of one column per sampled
\* parameter, with as many log-probabilities when return_lnprob is set.
C20_IteratorYieldsAfterBurnIn ==
    (/\ mpc \in {"done", "failed"}
     /\ mc.driver = "iterator"
     /\ mc.nburn <= mc.nsteps
     /\ RunnableArgs
     /\ mc.resume => mc.nburn = 0)
    => /\ mpc = "done"
       /\ mc.stored = mc.nsteps
       /\ mc.yielded = mc.nsteps - mc.nburn
       /\ mc.chain_shape = <<(mc.nsteps - mc.nburn) * mc.nwalkers, FreeParams>>
       /\ mc.return_lnprob => mc.lnprob_len = (mc.nsteps - mc.nburn) * mc.nwalkers

\* C21: a call of a sampler driver with a worker count that is not 'all'
\* and is non-positive or not whole fails by assertion with no sampler made
\* and no warning; a sampler, once made, has cpu_count workers for 'all' and
\* for a count above cpu_count, warned of once, and otherwise the count
\* asked, with no warning.
C21_WorkerCountClamped ==
    mpc \in {"failed", "sampling", "done"} =>
        LET nc == mc.n_cores
            valid == nc.all \/ (nc.n > 0 /\ nc.n % nc.d = 0)
        IN  /\ ~valid => /\ mpc = "failed" /\ mc.exc = "AssertionError"
                         /\ mc.threads = 0 /\ ~mc.warned
            /\ valid =>
                  mc.warned = (~nc.all /\ nc.n \div nc.d > cpu_count)
            /\ mpc \in {"sampling", "done"} =>
                  /\ valid
                  /\ mc.threads \in 1..cpu_count
                  /\ mc.threads = IF nc.all \/ nc.n \div nc.d > cpu_count
                                  THEN cpu_count ELSE nc.n \div nc.d

C21_Witness ==
    /\ mpc = "sampling" /\ mc.warned /\ mc.threads = cpu_count
    /\ mc.n_cores.n = cpu_count + 1

(***************************************************************************)
(* One sampler step on the worker pool: lnprob of every walker, the        *)
(* evaluations of different walkers interleaved                            *)
(***************************************************************************)
\* the walkers of the pool
MaxPoolWalkers == 3

\* the names lnprob pairs with theta
PoolNames(m, e) ==
    IF m.driver = "emu"
    THEN [j \in 1..Len(e.ordered_params) |-> e.ordered_params[j].name]
    ELSE SampledNames(e)

\* the number a symbolic prediction stands for in the likelihood: a fixed
\* function of the row asked and of the number of rows the GP was fitted on
GPMean(pred) == (SumTo(pred.at, Len(pred.at)) + Len(pred.gp.x)) % 3

\* the view of the emulator for theta with its predictions as numbers
PoolView(m, e, th) ==
    LET v == ViewOf(e, PoolNames(m, e), th)
    IN  [v EXCEPT !.out.mu = [i \in 1..Len(v.out.mu) |-> GPMean(v.out.mu[i])]]

\* lnprob at theta evaluated alone, as the sampler calls it
PoolLnprob(m, e, th) ==
    IF m.driver = "emu"
    THEN lnprob_emu(th, [ordered_params |-> e.ordered_params, zq |-> "none",
                         obs |-> <<[emu |-> PoolView(m, e, th),
                                    y |-> Measured(e).y,
                                    cov |-> Measured(e).cov]>>]).prob
    ELSE lnprob_runMCMC(th, [ordered_params |-> e.ordered_params,
                             param_names |-> SampledNames(e),
                             zq |-> "none", merge |-> m.merge,
                             obs |-> <<[emu |-> PoolView(m, e, th),
                                        y |-> Measured(e).y,
                                        combined_inv_cov |-> Measured(e).cov]>>]).prob

\* the sampler hands the positions q of its walkers to the pool; the
\* emulator is as build_emulator left it
StartPool ==
    /\ epc = "built" /\ mpc = "off"
    /\ \E driver \in {"emu", "runMCMC"}, merge \in {"HEAD", "theirs"},
          W \in 2..MaxPoolWalkers :
         \E q \in Positions(emu, W, IF driver = "emu" THEN emu.sampling_ndim
                                    ELSE Len(SampledNames(emu))) :
           /\ driver = "emu" => merge = "theirs"
           /\ mc' = [driver |-> driver, merge |-> merge, nwalkers |-> W, q |-> q,
                     task |-> [w \in 1..W |-> "queued"],
                     lp |-> [w \in 1..W |-> NaN],
                     view |-> [w \in 1..W |-> <<>>],
                     result |-> [w \in 1..W |-> NotCalled],
                     trained |-> emu, gathered |-> <<>>]
    /\ mpc' = "mapping"
    /\ george' = BuiltGeorge(emu)
    /\ tpc' = "serving"
    /\ UNCHANGED <<likeVars, sortVars, loadVars, looVars, cat>>

\* lnprob of walker w up to its test of the prior
WorkerPrior ==
    /\ mpc = "mapping"
    /\ \E w \in 1..mc.nwalkers :
         /\ mc.task[w] = "queued"
         /\ LET lp == IF mc.driver = "emu"
                      THEN lnprior_emu(mc.q[w], emu.ordered_params)
                      ELSE lnprior_runMCMC(mc.q[w], emu.ordered_params,
                                           SampledNames(emu))
            IN  mc' = IF isfinite(lp)
                      THEN [mc EXCEPT !.lp[w] = lp, !.task[w] = "likelihood"]
                      ELSE [mc EXCEPT !.lp[w] = lp, !.result[w] = Ret(NegInf),
                                      !.task[w] = "done"]
    /\ UNCHANGED <<mpc, trainVars, likeVars, sortVars, loadVars, looVars, cat>>

\* lnlike of walker w up to the return of the emulator: emulate reads the
\* emulator, and every GP that predicts recomputes if it finds the kernel
\* dirty
WorkerEmulate ==
    /\ mpc = "mapping"
    /\ \E w \in 1..mc.nwalkers :
         /\ mc.task[w] = "likelihood"
         /\ LET view == PoolView(mc, emu, mc.q[w])
            IN  /\ mc' = [mc EXCEPT !.view[w] = view, !.task[w] = "emulated"]
                /\ george' = IF view.out.exc = "none"
                             THEN PredictAll(george, 1, {}).george ELSE george
    /\ UNCHANGED <<mpc, tpc, likeVars, sortVars, loadVars, looVars, cat>>

\* the rest of lnlike and the return of lnprob of walker w
WorkerLike ==
    /\ mpc = "mapping"
    /\ \E w \in 1..mc.nwalkers :
         /\ mc.task[w] = "emulated"
         /\ LET ll == IF mc.driver = "emu"
                      THEN lnlike_emu(mc.view[w], "none", Measured(emu).y,
                                      Measured(emu).cov)
                      ELSE lnlike_runMCMC(<<[emu |-> mc.view[w],
                                             y |-> Measured(emu).y,
                                             combined_inv_cov |-> Measured(emu).cov]>>,
                                          "none", mc.merge)
            IN  mc' = [mc EXCEPT
                         !.result[w] = IF ll.kind = "raise" THEN Raise(ll.exc)
                                       ELSE Ret(FAdd(mc.lp[w], ll.val)),
                         !.task[w] = "done"]
    /\ UNCHANGED <<mpc, trainVars, likeVars, sortVars, loadVars, looVars, cat>>

\* the pool's map returns the results in the order of the walkers
Gather ==
    /\ mpc = "mapping"
    /\ \A w \in 1..mc.nwalkers : mc.task[w] = "done"
    /\ mc' = [mc EXCEPT !.gathered = mc.result]
    /\ mpc' = "gathered"
    /\ UNCHANGED <<trainVars, likeVars, sortVars, loadVars, looVars, cat>>

NextPool ==
    \/ LoadTrainingData_OR \/ LoadTrainingData_EC
    \/ BuildGP_OR \/ BuildGP_EC
    \/ StartPool \/ WorkerPrior \/ WorkerEmulate \/ WorkerLike \/ Gather
SpecPool == InitMcmc /\ [][NextPool]_vars

MaxResumeWalkers == 8
MaxResumeSteps == 3
MaxResumeParams == 3

\* sampler.chain[:, nburn:, :].reshape((-1, num_params)): the rows of walker
\* 1 at its kept steps, then those of walker 2, ...
collapse_chain(chain, nburn) ==
    Concat([w \in 1..Len(chain) |->
               [s \in 1..(Len(chain[w]) - nburn) |-> chain[w][nburn + s]]])

\* np.loadtxt of a file of rows of numbers: axes of length one are squeezed
loadtxt(rows) ==
    LET R == Len(rows)
        C == Len(rows[1])
    IN  [ndim |-> (IF R > 1 THEN 1 ELSE 0) + (IF C > 1 THEN 1 ELSE 0),
         data |-> Concat(rows)]

\* runMCMC._resume_from_previous(resume_from_previous, nwalkers, num_params)
resume_from_previous(file, nwalkers, num_params) ==
    LET old_chain == loadtxt(file)
        n == Len(old_chain.data)
        S == n \div (nwalkers * num_params)
    IN  IF old_chain.ndim = 2
        THEN IF n % (nwalkers * num_params) # 0
             THEN [exc |-> "ValueError", pos0 |-> <<>>]
             ELSE \* c = old_chain.reshape((nwalkers, -1, num_params)); c[:, -1, :]
                  [exc |-> "none",
                   pos0 |-> [w \in 1..nwalkers |-> [q \in 1..num_params |->
                               old_chain.data[(w - 1) * S * num_params
                                              + (S - 1) * num_params + q]]]]
        \* old_chain[:, -1, :] of an array of fewer than three dimensions
        ELSE [exc |-> "IndexError", pos0 |-> <<>>]

\* a sampler after sampler.run_mcmc(pos0, nsteps): an even number of
\* walkers, at least twice the parameters; every stored value is its own
InitResume ==
    /\ \E W \in 2..MaxResumeWalkers, T \in 1..MaxResumeSteps,
          P \in 1..MaxResumeParams, nburn \in 0..(MaxResumeSteps - 1) :
         /\ W % 2 = 0 /\ W >= 2 * P /\ nburn < T
         /\ mc = [nwalkers |-> W, nsteps |-> T, nburn |-> nburn, num_params |-> P,
                  chain |-> [w \in 1..W |-> [s \in 1..T |-> [q \in 1..P |->
                                100 * w + 10 * s + q]]],
                  file |-> <<>>, res |-> <<>>]
    /\ mpc = "sampled"
    /\ LikeOff /\ SortOff /\ LoadOff /\ TrainOff /\ LooOff /\ CatOff

\* the return of run_mcmc, saved as text
SaveChain ==
    /\ mpc = "sampled"
    /\ mc' = [mc EXCEPT !.file = collapse_chain(mc.chain, mc.nburn)]
    /\ mpc' = "saved"
    /\ UNCHANGED <<likeVars, sortVars, loadVars, trainVars, looVars, cat>>

\* _resume_from_previous on the saved chain
ResumeFromPrevious ==
    /\ mpc = "saved"
    /\ mc' = [mc EXCEPT !.res = resume_from_previous(mc.file, mc.nwalkers,
                                                     mc.num_params)]
    /\ mpc' = "resumed"
    /\ UNCHANGED <<likeVars, sortVars, loadVars, trainVars, looVars, cat>>

NextResume == SaveChain \/ ResumeFromPrevious
SpecResume == InitResume /\ [][NextResume]_vars

\* C27: resuming from the saved chain of a run of W walkers, S kept steps
\* and P parameters gives a W x P array whose row w is the last stored
\* position of walker w.
C27_ResumeRoundTrip ==
    mpc = "resumed" =>
        /\ mc.res.exc = "none"
        /\ Len(mc.res.pos0) = mc.nwalkers
        /\ \A w \in 1..mc.nwalkers : mc.res.pos0[w] = mc.chain[w][mc.nsteps]

(***************************************************************************)
(* ExtraCrispy.emulate_wrt_r_z                                             *)
(***************************************************************************)
\* the bins along each axis of the grids of an ExtraCrispy
MaxCrispyBins == 3

\* scipy's interp2d(x, y, z, kind)(r, z): the interpolant of the grid of
\* means z, built with kind, at the requested bins
Interp2d(x, y, z, kind, at_r, at_z) ==
    [x |-> x, y |-> y, z |-> z, kind |-> kind, at_r |-> at_r, at_z |-> at_z]

\* the kind with the cubic kept whenever the scale axis has three bins
InterpKind_scale_only(e, kind) ==
    IF kind = "cubic" /\ Len(e.scale_bin_centers) < 3 THEN "linear" ELSE kind

\* if kind == 'cubic' and any(len(bc) < 3 for bc in (scale, redshift)):
\*     kind = 'linear'
InterpKind(e, kind) ==
    IF kind = "cubic" /\ \E bc \in {e.scale_bin_centers, e.redshift_bin_centers} :
                            Len(bc) < 3
    THEN "linear" ELSE kind

\* ExtraCrispy.emulate_wrt_r_z(em_params, r_bin_centers, z_bin_centers,
\* gp_errs, kind); kinds holds the kind of every interp2d built
emulate_wrt_r_z_EC(e, em_params, r_bin_centers, z_bin_centers, gp_errs, kind) ==
    LET res == emulate(e, em_params, gp_errs)
        off == \/ /\ AnyNonzero(r_bin_centers)
                  /\ AnyDiffer(r_bin_centers, e.scale_bin_centers)
               \/ /\ AnyNonzero(z_bin_centers)
                  /\ AnyDiffer(z_bin_centers, e.redshift_bin_centers)
        k == InterpKind(e, kind)
        R == Len(e.scale_bin_centers)
        Z == Len(e.redshift_bin_centers)
        all_mu == Reshape3(res.mu, Z, R)
        new_mu == [p \in 1..Len(all_mu) |->
                     Interp2d(e.scale_bin_centers, e.redshift_bin_centers,
                              all_mu[p], k, r_bin_centers, z_bin_centers)]
        gave(exc, interpolated, mu) ==
            [exc |-> exc, interpolated |-> interpolated, mu |-> mu,
             kinds |-> IF interpolated /\ exc = "none"
                       THEN {new_mu[p].kind : p \in 1..Len(all_mu)} ELSE {}]
    IN  IF "r" \in DOMAIN em_params \/ "z" \in DOMAIN em_params
        THEN gave("AssertionError", FALSE, <<>>)
        ELSE IF res.exc # "none" THEN gave(res.exc, FALSE, <<>>)
        ELSE IF ~off THEN gave("none", FALSE, res.mu)
        ELSE IF Len(res.mu) % (Z * R) # 0 THEN gave("ValueError", TRUE, <<>>)
        ELSE gave("none", TRUE, new_mu)

\* an ExtraCrispy over one HOD parameter and a clean corpus of up to
\* MaxCrispyBins epochs and scale bins
InitCrispy ==
    /\ \E N \in 1..MaxPoints, Z \in 1..MaxCrispyBins, nb \in 1..MaxCrispyBins,
          low \in 0..MaxParamLow, method \in {"LHC", "FHC"},
          iv \in {"None", "r2"} :
         LET hod == HodParams(1, <<low>>, N)
             points == IF method = "LHC" THEN makeLHC(hod, N) ELSE makeFHC(hod, N)
         IN  /\ corpus = Corpus(1, [k \in 1..Z |-> ScaleFactors[k]], method,
                                points, nb, {})
             /\ emu = NewEmu("ExtraCrispy", hod, <<>>, iv)
    /\ epc = "new"
    /\ out = <<>>
    /\ LikeOff /\ SortOff /\ McmcOff /\ TrainOff /\ LooOff /\ CatOff

\* emu.emulate_wrt_r_z(em_params, r_bin_centers, z_bin_centers, gp_errs,
\* kind) on a built ExtraCrispy, at the low of its HOD parameter
EmulateWrtRZ_EC ==
    /\ epc = "built" /\ emu.variant = "ExtraCrispy"
    /\ \E r_bin_centers \in
             {emu.scale_bin_centers,
              [k \in 1..Len(emu.scale_bin_centers) |->
                  10 * emu.scale_bin_centers[k]]},
          z_bin_centers \in
             {emu.redshift_bin_centers,
              [k \in 1..Len(emu.redshift_bin_centers) |->
                  emu.redshift_bin_centers[k] + 1]},
          gp_errs \in BOOLEAN, kind \in {"cubic", "linear", "quintic"} :
         LET em_params == FullQuery(emu)
         IN  out' = [em_params |-> em_params, r_bin_centers |-> r_bin_centers,
                     z_bin_centers |-> z_bin_centers, gp_errs |-> gp_errs,
                     kind |-> kind,
                     res |-> emulate_wrt_r_z_EC(emu, em_params, r_bin_centers,
                                                z_bin_centers, gp_errs, kind)]
    /\ epc' = "asked"
    /\ UNCHANGED <<corpus, emu, likeVars, sortVars, mcmcVars, trainVars, looVars, cat>>

NextCrispy == LoadTrainingData_EC \/ BuildGP_EC \/ EmulateWrtRZ_EC
SpecCrispy == InitCrispy /\ [][NextCrispy]_vars

C28_OneRowPerParameterPoint ==
    (epc = "loaded" /\ emu.variant = "ExtraCrispy") =>
        /\ Len(emu.x) = Len(emu.y)
        /\ Len(emu.x) = Len(emu.yerr)
        /\ \A p \in 1..Len(emu.x) :
              LET o == emu.y[p][1][1]
                  file == corpus[o.d][o.e].files[o.f]
              IN  emu.x[p] = [j \in 1..Len(emu.ordered_params) |->
                                 file.params[emu.ordered_params[j].name]]

(***************************************************************************)
(* _loo_errors: the leave-one-out jackknife covariance                     *)
(*                                                                         *)
(* The GP's matrix is K = k(x, x) + diag(yerr^2) with whole entries; its   *)
(* inverse is held exactly as the adjugate over the determinant, and the   *)
(* means as fractions in lowest terms.                                     *)
(***************************************************************************)
\* training points and query points of one call, and the values of x and y
MaxLooN == 3
MaxLooQ == 2
MaxLooX == 3
MaxLooY == 1

RECURSIVE GCD(_, _)
GCD(a, b) == IF b = 0 THEN a ELSE GCD(b, a % b)

\* the fraction n / d in lowest terms, d > 0
Q(n, d) ==
    LET g == GCD(Abs(n), Abs(d))
        sgn == IF d < 0 THEN -1 ELSE 1
    IN  [n |-> sgn * (n \div g), d |-> sgn * (d \div g)]
\* sums and products with the common factors taken out first
QAdd(a, b) ==
    LET g == GCD(a.d, b.d)
    IN  Q(a.n * (b.d \div g) + b.n * (a.d \div g), (a.d \div g) * b.d)
QSub(a, b) == QAdd(a, [n |-> -b.n, d |-> b.d])
QMul(a, b) ==
    LET g1 == GCD(Abs(a.n), b.d)
        g2 == GCD(Abs(b.n), a.d)
    IN  Q((a.n \div g1) * (b.n \div g2), (a.d \div g2) * (b.d \div g1))
RECURSIVE QSum(_, _)
QSum(f, n) == IF n = 0 THEN Q(0, 1) ELSE QAdd(f[n], QSum(f, n - 1))

\* emulator.kernel.value at two points
KernelValue(a, b) == Max(0, 2 - Abs(a[1] - b[1]))

\* the matrix the GP factorizes for the inputs x with squared errors yerr2
KernelMatrix(x, yerr2) ==
    [r \in 1..Len(x) |-> [c \in 1..Len(x) |->
        KernelValue(x[r], x[c]) + (IF r = c THEN yerr2[r] ELSE 0)]]

\* emulator.solver.apply_inverse(np.eye(N)): adj / det
apply_inverse(K) == [adj |-> Adj(K), det |-> Det(K)]

\* a[dst] = a[src] with index lists: the right side is copied first, and
\* of two assignments to one index the later stays
AssignRows(a, dst, src) ==
    [r \in 1..Len(a) |->
        IF \E k \in 1..Len(dst) : dst[k] = r
        THEN a[src[CHOOSE k \in 1..Len(dst) :
                      dst[k] = r /\ \A l \in 1..Len(dst) : dst[l] = r => l <= k]]
        ELSE a[r]]

\* M[:, dst] = M[:, src]
AssignCols(M, dst, src) == [r \in 1..Len(M) |-> AssignRows(M[r], dst, src)]

\* the swap of the row and the column idx of K_inv_full with the last
SwapInverse(Kinv, idx, N) ==
    [Kinv EXCEPT !.adj = AssignCols(AssignRows(Kinv.adj, <<idx, N>>, <<N, idx>>),
                                    <<idx, N>>, <<N, idx>>)]

\* K_inv_full[:N-1, :][:, :N-1]
\*   - np.outer(K_inv_full[N-1, :N-1], K_inv_full[:N-1, N-1]) / K_inv_full[N-1, N-1]
\* as numerators over one denominator
Downdate(Kinv, N) ==
    [num |-> [r \in 1..(N - 1) |-> [c \in 1..(N - 1) |->
                 Kinv.adj[r][c] * Kinv.adj[N][N] - Kinv.adj[N][r] * Kinv.adj[c][N]]],
     den |-> Kinv.det * Kinv.adj[N][N]]

\* np.dot(Kxxs_t, np.dot(K_m_idx_inv, y - mean)) + mean at the query points
\* t, for the inverse inv (numerators over a denominator) of the points x, y
LooMean(inv, x, y, tq, mean) ==
    LET n == Len(x)
        alpha == [r \in 1..n |->
                     SumTo([c \in 1..n |-> inv.num[r][c] * (y[c] - mean)], n)]
    IN  [q \in 1..Len(tq) |->
            Q(SumTo([r \in 1..n |-> KernelValue(tq[q], x[r]) * alpha[r]], n)
                  + mean * inv.den, inv.den)]

\* the first n entries of a sequence
Upto(a, n) == [k \in 1..n |-> a[k]]

\* one pass of the loop with the swaps of y left out
loo_iteration_y_unswapped(st) ==
    LET N == st.N
        idx == st.idx + 1
        x1 == AssignRows(st.x, <<N, idx>>, <<idx, N>>)
        K1 == SwapInverse(st.K_inv_full, idx, N)
        inv == Downdate(K1, N)
    IN  [st EXCEPT
           !.used = [inv |-> inv, x |-> Upto(x1, N - 1), y |-> Upto(st.y, N - 1)],
           !.mus[idx] = LooMean(inv, Upto(x1, N - 1), Upto(st.y, N - 1), st.t, st.mean),
           !.writes[idx] = @ + 1,
           !.x = AssignRows(x1, <<N, idx>>, <<idx, N>>),
           !.K_inv_full = SwapInverse(K1, idx, N),
           !.idx = idx]

\* one pass of the loop with the restoring swaps left out
loo_iteration_unrestored(st) ==
    LET N == st.N
        idx == st.idx + 1
        x1 == AssignRows(st.x, <<N, idx>>, <<idx, N>>)
        y1 == AssignRows(st.y, <<N, idx>>, <<idx, N>>)
        K1 == SwapInverse(st.K_inv_full, idx, N)
        inv == Downdate(K1, N)
    IN  [st EXCEPT
           !.used = [inv |-> inv, x |-> Upto(x1, N - 1), y |-> Upto(y1, N - 1)],
           !.mus[idx] = LooMean(inv, Upto(x1, N - 1), Upto(y1, N - 1), st.t, st.mean),
           !.writes[idx] = @ + 1,
           !.x = x1, !.y = y1, !.K_inv_full = K1,
           !.idx = idx]

\* one pass of the loop of _loo_errors, leaving out the training point
\* idx: the swaps with the last point, the inverse of the remaining points,
\* their mean at t stored in row idx of mus, and the swaps again
loo_iteration(st) ==
    LET N == st.N
        idx == st.idx + 1
        x1 == AssignRows(st.x, <<N, idx>>, <<idx, N>>)
        y1 == AssignRows(st.y, <<N, idx>>, <<idx, N>>)
        K1 == SwapInverse(st.K_inv_full, idx, N)
        inv == Downdate(K1, N)
    IN  [st EXCEPT
           !.used = [inv |-> inv, x |-> Upto(x1, N - 1), y |-> Upto(y1, N - 1)],
           !.mus[idx] = LooMean(inv, Upto(x1, N - 1), Upto(y1, N - 1), st.t, st.mean),
           !.writes[idx] = @ + 1,
           !.x = AssignRows(x1, <<N, idx>>, <<idx, N>>),
           !.y = AssignRows(y1, <<N, idx>>, <<idx, N>>),
           !.K_inv_full = SwapInverse(K1, idx, N),
           !.idx = idx]

\* np.cov(mus, rowvar=False): the rows are the observations; a matrix for
\* several columns, a number for one
np_cov(mus) ==
    LET N == Len(mus)
        nq == Len(mus[1])
        avg == [q \in 1..nq |-> QMul(QSum([i \in 1..N |-> mus[i][q]], N), Q(1, N))]
        c == [p \in 1..nq |-> [q \in 1..nq |->
                 QMul(QSum([i \in 1..N |-> QMul(QSub(mus[i][p], avg[p]),
                                                QSub(mus[i][q], avg[q]))], N),
                      Q(1, N - 1))]]
    IN  IF nq = 1 THEN [scalar |-> TRUE, v |-> c[1][1]]
        ELSE [scalar |-> FALSE, v |-> c]

\* the return of _loo_errors with the factor (N - 1) / N left out
loo_return_unscaled(mus) ==
    LET c == np_cov(mus)
    IN  IF Len(mus[1]) = 1 THEN <<<<c.v>>>> ELSE c.v

\* the return of _loo_errors: (N - 1.0) / N * np.cov(mus, rowvar=False), as
\* np.array([[cov]]) for one query point
loo_return(mus) ==
    LET N == Len(mus)
        c == np_cov(mus)
        f == Q(N - 1, N)
    IN  IF Len(mus[1]) = 1 THEN <<<<QMul(f, c.v)>>>>
        ELSE [p \in 1..Len(c.v) |-> [q \in 1..Len(c.v) |-> QMul(f, c.v[p][q])]]

\* sequences of n distinct values of S
Distinct(n, S) == {f \in [1..n -> S] : \A i, j \in 1..n : f[i] = f[j] => i = j}

\* a built OriginalRecipe seen through its GP: the inputs x, the squared
\* errors, and the call _loo_errors(y, t) about to be made
InitLoo ==
    /\ \E N \in 2..MaxLooN, nq \in 1..MaxLooQ :
         \E xs \in Distinct(N, 1..MaxLooX), y \in [1..N -> 0..MaxLooY],
            yerr2 \in [1..N -> 0..1], tq \in [1..nq -> 1..2] :
           loo = [N |-> N, x |-> [r \in 1..N |-> <<xs[r]>>], y |-> y,
                  yerr2 |-> yerr2, t |-> [q \in 1..nq |-> <<tq[q]>>], mean |-> 0,
                  K_inv_full |-> <<>>, idx |-> 0, mus |-> <<>>, writes |-> <<>>,
                  used |-> <<>>, entry |-> <<>>, ret |-> <<>>]
    /\ jpc = "called"
    /\ LikeOff /\ SortOff /\ LoadOff /\ McmcOff /\ TrainOff /\ CatOff

\* _loo_errors up to its loop: the full inverse and the matrix of zeros;
\* entry keeps what x, y and the inverse were
LooEnter ==
    /\ jpc = "called"
    /\ LET Kinv == apply_inverse(KernelMatrix(loo.x, loo.yerr2))
       IN  loo' = [loo EXCEPT
                     !.K_inv_full = Kinv,
                     !.mus = [i \in 1..loo.N |-> [q \in 1..Len(loo.t) |-> Q(0, 1)]],
                     !.writes = [i \in 1..loo.N |-> 0],
                     !.entry = [x |-> loo.x, y |-> loo.y, K_inv_full |-> Kinv]]
    /\ jpc' = "looping"
    /\ UNCHANGED <<likeVars, sortVars, loadVars, mcmcVars, trainVars, cat>>

\* for idx in xrange(N)
LooIteration ==
    /\ jpc = "looping" /\ loo.idx < loo.N
    /\ loo' = loo_iteration(loo)
    /\ jpc' = "looping"
    /\ UNCHANGED <<likeVars, sortVars, loadVars, mcmcVars, trainVars, cat>>

\* the return of the jackknife covariance
LooReturn ==
    /\ jpc = "looping" /\ loo.idx = loo.N
    /\ loo' = [loo EXCEPT !.ret = loo_return(loo.mus)]
    /\ jpc' = "returned"
    /\ UNCHANGED <<likeVars, sortVars, loadVars, mcmcVars, trainVars, cat>>

NextLoo == LooEnter \/ LooIteration \/ LooReturn
SpecLoo == InitLoo /\ [][NextLoo]_vars

\* the training points without point i, in their order on entry
Without(a, i) == [k \in 1..(Len(a) - 1) |-> IF k < i THEN a[k] ELSE a[k + 1]]

\* the mean at t of the GP of the training points other than i: its matrix
\* inverted afresh
LeaveOneOut(i) ==
    LET x == Without(loo.entry.x, i)
        K == KernelMatrix(x, Without(loo.yerr2, i))
    IN  LooMean([num |-> Adj(K), den |-> Det(K)], x, Without(loo.entry.y, i),
                loo.t, loo.mean)

\* C22: on return every row i of the N x Q matrix has been written once and
\* holds the mean of the GP that leaves training point i out, and the result
\* is the Q x Q matrix (1 x 1 for Q = 1) of (N - 1) / N times the sample
\* covariance of the rows.
C22_LooCovariance ==
    jpc = "returned" =>
        LET N == loo.N
            nq == Len(loo.t)
            avg == [q \in 1..nq |->
                      QMul(QSum([i \in 1..N |-> LeaveOneOut(i)[q]], N), Q(1, N))]
        IN  /\ Len(loo.mus) = N
            /\ \A i \in 1..N : loo.writes[i] = 1 /\ loo.mus[i] = LeaveOneOut(i)
            /\ Len(loo.ret) = nq
            /\ \A p \in 1..nq :
                  /\ Len(loo.ret[p]) = nq
                  /\ \A q \in 1..nq :
                        QMul(loo.ret[p][q], Q(N, 1))
                          = QSum([i \in 1..N |->
                                    QMul(QSub(LeaveOneOut(i)[p], avg[p]),
                                         QSub(LeaveOneOut(i)[q], avg[q]))], N)

C22_Witness ==
    /\ jpc = "returned" /\ loo.N = 3 /\ Len(loo.t) = 1
    /\ loo.ret[1][1].n # 0

\* C24: in every pass, the last included, the inverse used is
\* A - outer(b, c) / d of the cached inverse with row and column idx last,
\* it is the inverse of the matrix of the points it is used with, whose y are
\* their own, and these are the training points other than idx.
C24_LooDowndate ==
    (jpc \in {"looping", "returned"} /\ loo.idx >= 1) =>
        LET N == loo.N
            M == SwapInverse(loo.entry.K_inv_full, loo.idx, N)
            u == loo.used
            own(k) == CHOOSE r \in 1..N : loo.entry.x[r] = u.x[k]
            K == KernelMatrix(u.x, [k \in 1..(N - 1) |-> loo.yerr2[own(k)]])
        IN  /\ \A r, c \in 1..(N - 1) :
                  \* A[r][c] - b[r] * c[c] / d
                  u.inv.num[r][c] * M.det * M.adj[N][N]
                    = (M.adj[r][c] * M.adj[N][N] - M.adj[r][N] * M.adj[N][c])
                        * u.inv.den
            /\ \A r, c \in 1..(N - 1) :
                  u.inv.num[r][c] * Det(K) = Adj(K)[r][c] * u.inv.den
            /\ \A k \in 1..(N - 1) : u.y[k] = loo.entry.y[own(k)]
            /\ {u.x[k] : k \in 1..(N - 1)}
                 = {loo.entry.x[r] : r \in (1..N) \ {loo.idx}}

C24_Witness ==
    /\ jpc = "looping" /\ loo.N = 3 /\ loo.idx = 3
    /\ loo.y[1] # loo.y[2] /\ loo.yerr2[1] # loo.yerr2[3]

\* C25: at the start of every pass and on return x, y and the cached
\* inverse are as they were on entry.
C25_LooRestoresState ==
    jpc \in {"looping", "returned"} =>
        /\ loo.x = loo.entry.x
        /\ loo.y = loo.entry.y
        /\ loo.K_inv_full = loo.entry.K_inv_full

C25_Witness ==
    /\ jpc = "looping" /\ loo.N = 3 /\ loo.idx = 1
    /\ loo.y[1] # loo.y[3] /\ loo.yerr2[1] # loo.yerr2[3]

(***************************************************************************)
(* Cat: load, populate and the observables                                 *)
(***************************************************************************)
\* the calls made on one Cat
MaxCatCalls == 4

\* self.model = None, and a model fresh from its factory: no mock yet
NoModel == [loaded |-> FALSE, a |-> 0, mock |-> FALSE]
NewModel(a) == [loaded |-> TRUE, a |-> a, mock |-> FALSE]

\* what a call left behind: the method, its exception if any, whether the
\* body of an observable was entered, and the Cat as the call found it
Called(c, op, exc, entered) ==
    [op |-> op, exc |-> exc, entered |-> entered,
     pre |-> [halocat |-> c.halocat, model |-> c.model,
              populated_once |-> c.populated_once]]

\* Cat.__init__: no catalog, no model, never populated
NewCat(sfs) ==
    [scale_factors |-> sfs, halocat |-> 0, model |-> NoModel,
     populated_once |-> FALSE, calls |-> 0, last |-> <<>>]

\* Cat.load_catalog(scale_factor, check_sf)
load_catalog(c, scale_factor, check_sf) ==
    LET r == IF check_sf THEN cat_load(scale_factor, c.scale_factors)
             ELSE [exc |-> "none", a |-> scale_factor]
    IN  IF r.exc # "none" THEN [c EXCEPT !.last = Called(c, "load_catalog", r.exc, FALSE)]
        ELSE [c EXCEPT !.halocat = r.a, !.last = Called(c, "load_catalog", "none", FALSE)]

\* Cat.load_model(scale_factor, HOD, check_sf): self.model is a new model
load_model(c, scale_factor, check_sf) ==
    LET r == IF check_sf THEN cat_load(scale_factor, c.scale_factors)
             ELSE [exc |-> "none", a |-> scale_factor]
    IN  IF r.exc # "none" THEN [c EXCEPT !.last = Called(c, "load_model", r.exc, FALSE)]
        ELSE [c EXCEPT !.model = NewModel(r.a),
                       !.last = Called(c, "load_model", "none", FALSE)]

\* Cat.load(scale_factor, HOD): the nearest scale factor, then load_catalog
\* and load_model without their checks
load(c, scale_factor) ==
    LET r == cat_load(scale_factor, c.scale_factors)
        withcat == load_catalog(c, r.a, FALSE)
        withmodel == load_model(withcat, r.a, FALSE)
    IN  IF r.exc # "none" THEN [c EXCEPT !.last = Called(c, "load", r.exc, FALSE)]
        ELSE [withmodel EXCEPT !.last = Called(c, "load", "none", FALSE)]

\* Cat.populate(params)
populate(c) ==
    IF ~c.model.loaded
    THEN [c EXCEPT !.last = Called(c, "populate", "AssertionError", FALSE)]
    ELSE IF c.populated_once
    THEN \* self.model.mock.populate: a model gets its mock from populate_mock
         IF c.model.mock THEN [c EXCEPT !.last = Called(c, "populate", "none", FALSE)]
         ELSE [c EXCEPT !.last = Called(c, "populate", "AttributeError", FALSE)]
    ELSE \* self.model.populate_mock(self.halocat): of None, no halo table
         IF c.halocat = 0
         THEN [c EXCEPT !.last = Called(c, "populate", "AttributeError", FALSE)]
         ELSE [c EXCEPT !.model.mock = TRUE, !.populated_once = TRUE,
                        !.last = Called(c, "populate", "none", FALSE)]

\* a method under the observable decorator, its body reading
\* self.model.mock
observable(c) ==
    IF c.halocat = 0 \/ ~c.model.loaded \/ ~c.populated_once
    THEN [c EXCEPT !.last = Called(c, "observable", "AssertionError", FALSE)]
    ELSE IF ~c.model.mock
    THEN [c EXCEPT !.last = Called(c, "observable", "AttributeError", TRUE)]
    ELSE [c EXCEPT !.last = Called(c, "observable", "none", TRUE)]

InitCat ==
    /\ \E sfs \in CatScaleFactors : cat = NewCat(sfs)
    /\ LikeOff /\ SortOff /\ LoadOff /\ McmcOff /\ TrainOff /\ LooOff

\* the call has been made
Counted(c) == [c EXCEPT !.calls = @ + 1]

CallLoad ==
    /\ cat.calls < MaxCatCalls
    /\ \E scale_factor \in AskedScaleFactors : cat' = Counted(load(cat, scale_factor))
    /\ UNCHANGED <<likeVars, sortVars, loadVars, mcmcVars, trainVars, looVars>>

CallLoadCatalog ==
    /\ cat.calls < MaxCatCalls
    /\ \E scale_factor \in AskedScaleFactors :
          cat' = Counted(load_catalog(cat, scale_factor, TRUE))
    /\ UNCHANGED <<likeVars, sortVars, loadVars, mcmcVars, trainVars, looVars>>

CallLoadModel ==
    /\ cat.calls < MaxCatCalls
    /\ \E scale_factor \in AskedScaleFactors :
          cat' = Counted(load_model(cat, scale_factor, TRUE))
    /\ UNCHANGED <<likeVars, sortVars, loadVars, mcmcVars, trainVars, looVars>>

CallPopulate ==
    /\ cat.calls < MaxCatCalls
    /\ cat' = Counted(populate(cat))
    /\ UNCHANGED <<likeVars, sortVars, loadVars, mcmcVars, trainVars, looVars>>

CallObservable ==
    /\ cat.calls < MaxCatCalls
    /\ cat' = Counted(observable(cat))
    /\ UNCHANGED <<likeVars, sortVars, loadVars, mcmcVars, trainVars, looVars>>

NextCat ==
    \/ CallLoad \/ CallLoadCatalog \/ CallLoadModel
    \/ CallPopulate \/ CallObservable
SpecCat == InitCat /\ [][NextCat]_vars

\* C30: the body of an observable runs only on a Cat with a catalog, a
\* model and a populated mock of that model, and the call raises
\* AssertionError otherwise; populated_once implies that the current model
\* owns a populated mock, load on a populated Cat included; and populate on a
\* Cat with populated_once set succeeds.
C30_ObservableNeedsPopulatedModel ==
    /\ cat.populated_once => cat.model.loaded /\ cat.model.mock
    /\ cat.calls > 0 =>
          LET ready == /\ cat.last.pre.halocat # 0
                       /\ cat.last.pre.model.loaded
                       /\ cat.last.pre.model.mock
          IN  /\ cat.last.op = "observable" =>
                    /\ cat.last.entered => ready
                    /\ ~ready => cat.last.exc = "AssertionError"
              /\ (cat.last.op = "populate" /\ cat.last.pre.populated_once) =>
                    cat.last.exc = "none"

====
